---- MODULE Spec2Model ----
(***************************************************************************)
(* Model of the document capture engine (CaptureEngine and the components  *)
(* it owns: DocumentDetector, QualityAssessor, PerspectiveCorrector).      *)
(*                                                                         *)
(* Number conventions.  The program computes in IEEE single precision; the *)
(* model computes in fixed point:                                          *)
(*   - coordinates and edge lengths are integers (pixels); a Euclidean     *)
(*     length is the floor of the square root;                             *)
(*   - scores (blur, brightness, stability, confidence, coverage) are in   *)
(*     thousandths, so 0.6f is 600 and 1.0f is 1000;                       *)
(*   - skews are in ten-thousandths, so 0.05f is 500 and 0.01f is 100.     *)
(* Pixel work done by the image library (edge map, contours, polygon       *)
(* simplification, Laplacian variance, mean intensity, warps) is not       *)
(* computed: a frame carries the outcome of each such primitive as a       *)
(* field, and the frames offered to the engine are enumerated below.       *)
(***************************************************************************)
EXTENDS Integers, Sequences, FiniteSets, TLC

\* Every record field of the model with the kind of value it holds (a field
\* holding a record is listed as STRING), in the one order in which the
\* record constructors below list their fields.
RecordFields ==
    [found : BOOLEAN, score : STRING, document_found : BOOLEAN,
     table_found : BOOLEAN, text_region_found : BOOLEAN, result : STRING,
     hist : Seq(Seq(Int \X Int)), image_data : BOOLEAN, width : Int,
     height : Int, error : STRING, apply_crop : BOOLEAN,
     apply_perspective_correction : BOOLEAN, apply_auto_enhance : BOOLEAN,
     apply_sharpening : BOOLEAN, enhance_mode : Int, output_width : Int,
     output_height : Int, op : STRING, void : BOOLEAN, bounds : Seq(Int),
     count : Int, coverage : Int, ok : BOOLEAN, cols : Int, rows : Int,
     channels : Int, stride : Int, success : BOOLEAN, image : STRING,
     steps : Seq(STRING), path : STRING, corners : Seq(Int \X Int),
     confidence : Int, corner_confidence : Int, blur_score : Int,
     brightness_score : Int, stability_score : Int, overall_score : Int,
     capture_ready : BOOLEAN, is_trapezoid : BOOLEAN, skew_ratio : Int,
     top_width : Int, bottom_width : Int, left_height : Int,
     right_height : Int, vertical_skew : Int, horizontal_skew : Int,
     text_region_count : Int, overall_bounds : Seq(Int),
     coverage_ratio : Int, adjusted : STRING, guide : Seq(Int),
     frame : Seq(Int), perspective : BOOLEAN, crop : BOOLEAN,
     output : Seq(Int), stored : BOOLEAN, json : STRING,
     error_message : STRING, quad : Seq(Int \X Int), text : STRING,
     blur : Int, brightness : Int, roiBlur : Int, roiBrightness : Int]

VARIABLES
    corner_history_,  \* QualityAssessor::corner_history_ (deque of corner sets)
    last_analysis_,   \* CaptureEngine::last_analysis_
    call,             \* the operation that returned last, with its outcome class
    ret,              \* the value that operation returned
    enh,              \* locals of the last enhance call: the corners and the
                      \* switches it worked with, the frame size, the steps run
    submitted         \* history variable: corner sets handed to checkStability
                      \* since the last reset, oldest first

vars == <<corner_history_, last_analysis_, call, ret, enh, submitted>>

\* Variables of the corner-ordering study (SpecOrder).
VARIABLES
    ord_in,           \* the 4-point input
    ord_det,          \* <<o1, o2>>: the detector's ordering applied once, twice
    ord_cor,          \* <<o1, o2>>: the corrector's ordering applied once, twice
    ord_pc            \* "in" | "det" | "cor": what has been applied

ordvars == <<ord_in, ord_det, ord_cor, ord_pc>>

\* Variables of the Sauvola binarisation study (SpecSauvola).
VARIABLES
    sv_in,            \* the input <<image, windowSize>>, image[y][x] a grey level
    sv_out            \* the binarised image, <<>> until the routine has run

svvars == <<sv_in, sv_out>>

\* Variables of the contour study (SpecDetect).
VARIABLES
    det_in,           \* <<contours, <<width, height>>>>: what findContours gave
                      \* for a frame of that size, <<>> when there is none
    det_out           \* <<quad, result>>: what findLargestQuadrilateral and
                      \* then detect returned, <<>> until they have run

detvars == <<det_in, det_out>>

\* Variable of the overlapping-calls study (SpecOverlap).
VARIABLES
    gf                \* the enhanceImageWithGuideFrame call in flight or last
                      \* completed, as <<pc, arguments, corners, read1, read2,
                      \* overlapped>>: pc is "corners" between the two places
                      \* that read last_analysis_ and "done" after the second;
                      \* read1 and read2 are the values read there; overlapped
                      \* tells whether an analyzeFrame call returned in
                      \* between; <<>> when calls are not followed stepwise

gfvars == <<gf>>
allvars == <<corner_history_, last_analysis_, call, ret, enh, submitted,
             ord_in, ord_det, ord_cor, ord_pc, sv_in, sv_out, det_in, det_out, gf>>

-----------------------------------------------------------------------------
(* Arithmetic helpers *)

Abs(x) == IF x < 0 THEN -x ELSE x
Min2(a, b) == IF a < b THEN a ELSE b
Max2(a, b) == IF a > b THEN a ELSE b

RECURSIVE SqrtSearch(_, _, _)
SqrtSearch(n, lo, hi) ==
    IF lo >= hi THEN lo
    ELSE LET mid == (lo + hi + 1) \div 2
         IN IF mid * mid <= n THEN SqrtSearch(n, mid, hi)
                              ELSE SqrtSearch(n, lo, mid - 1)

\* std::sqrt on a non-negative value, floored to an integer
ISqrt(n) == SqrtSearch(n, 0, Min2(n, 46340))

\* cv::norm(a - b): Euclidean distance of two points
Norm(a, b) == ISqrt((a[1] - b[1]) * (a[1] - b[1]) + (a[2] - b[2]) * (a[2] - b[2]))

RECURSIVE SumSeq(_)
SumSeq(s) == IF s = <<>> THEN 0 ELSE Head(s) + SumSeq(Tail(s))

\* cv::Point2f(): a value-initialised point
ZeroPt == <<0, 0>>
ZeroQuad == <<ZeroPt, ZeroPt, ZeroPt, ZeroPt>>

-----------------------------------------------------------------------------
(* Corner ordering *)

\* The quadrant test shared by both orderCorners routines: center is the
\* sum of the four points times 0.25, so pt.x < center.x is 4*pt.x < sum.x.
\* Slots: 1 = top-left, 2 = top-right, 3 = bottom-right, 4 = bottom-left.
Slot(pt, c) ==
    LET sx == c[1][1] + c[2][1] + c[3][1] + c[4][1]
        sy == c[1][2] + c[2][2] + c[3][2] + c[4][2]
    IN IF 4 * pt[1] < sx /\ 4 * pt[2] < sy THEN 1
       ELSE IF 4 * pt[1] >= sx /\ 4 * pt[2] < sy THEN 2
       ELSE IF 4 * pt[1] >= sx /\ 4 * pt[2] >= sy THEN 3
       ELSE 4

\* Indices of the points of c classified into slot k
SlotIdx(c, k) == {i \in 1..4 : Slot(c[i], c) = k}

SetMax(S) == CHOOSE m \in S : \A x \in S : x <= m
SetMin(S) == CHOOSE m \in S : \A x \in S : m <= x

\* DocumentDetector::orderCorners: every point overwrites its slot (the
\* last point seen wins); a slot no point falls in keeps cv::Point2f().
DetectorOrderCorners(c) ==
    IF Len(c) # 4 THEN c
    ELSE [k \in 1..4 |->
            IF SlotIdx(c, k) = {} THEN ZeroPt ELSE c[SetMax(SlotIdx(c, k))]]

\* PerspectiveCorrector::orderCorners: the first point seen keeps its slot;
\* if a slot stays unassigned the input is returned as it came.
CorrectorOrderCorners(c) ==
    IF Len(c) # 4 THEN c
    ELSE IF \E k \in 1..4 : SlotIdx(c, k) = {} THEN c
    ELSE [k \in 1..4 |-> c[SetMin(SlotIdx(c, k))]]

-----------------------------------------------------------------------------
(* DocumentDetector *)

\* const int TARGET_WIDTH = 480 in DocumentDetector::detect
TARGET_WIDTH == 480

\* The scale-back loop of detect: scale = TARGET_WIDTH / cols when the frame
\* is wider than TARGET_WIDTH (else 1), and every coordinate is divided by it.
ScaleBack(quad, cols) ==
    IF cols > TARGET_WIDTH
    THEN [i \in 1..4 |-> <<(quad[i][1] * cols) \div TARGET_WIDTH,
                           (quad[i][2] * cols) \div TARGET_WIDTH>>]
    ELSE quad

\* cv::contourArea of a 4-point polygon, doubled (the shoelace sum)
ContourArea2(c) ==
    Abs(  (c[1][1] * c[2][2] - c[2][1] * c[1][2])
        + (c[2][1] * c[3][2] - c[3][1] * c[2][2])
        + (c[3][1] * c[4][2] - c[4][1] * c[3][2])
        + (c[4][1] * c[1][2] - c[1][1] * c[4][2]))

\* The area-fit score of calculateConfidence, from areaRatio in thousandths
AreaScore(areaRatio) ==
    IF areaRatio >= 200 /\ areaRatio <= 800 THEN 1000 - Abs(areaRatio - 500)
    ELSE IF areaRatio > 100 THEN 500
    ELSE 0

\* areaRatio of calculateConfidence in thousandths: contourArea(corners) /
\* imageArea
AreaRatio(corners, cols, rows) == (ContourArea2(corners) * 500) \div (cols * rows)

\* distScore of calculateConfidence in thousandths: the smallest distance
\* between two corners over a tenth of sqrt(imageArea), capped at 1
DistScore(corners, cols, rows) ==
    LET pairDist == SetMin({Norm(corners[p[1]], corners[p[2]]) :
                              p \in {q \in (1..4) \X (1..4) : q[1] < q[2]}})
    IN Min2(1000, (pairDist * 10000) \div ISqrt(cols * rows))

\* DocumentDetector::calculateConfidence
calculateConfidence(corners, cols, rows) ==
    IF Len(corners) # 4 THEN 0
    ELSE (AreaScore(AreaRatio(corners, cols, rows)) * 6
            + DistScore(corners, cols, rows) * 4) \div 10

\* min_area_ratio_ = 0.05f, as the fraction 1/20
min_area_ratio_ == <<1, 20>>

\* A contour as findLargestQuadrilateral sees it, by what the image library
\* returns for it: <<contourArea, the polygons approxPolyDP gives at
\* epsFactor 0.02, 0.04, 0.06, 0.08 and 0.1, the number of its points, the
\* four vertices of minAreaRect, that rectangle's width * height>>
contourArea(contour) == contour[1]
approxPolyDP(contour, i) == contour[2][i]
ContourSize(contour) == contour[3]
minAreaRect(contour) == contour[4]
RectArea(contour) == contour[5]

\* z component of (b - a) x (c - b)
Cross(a, b, c) ==
    (b[1] - a[1]) * (c[2] - b[2]) - (b[2] - a[2]) * (c[1] - b[1])

\* cv::isContourConvex: the polygon never turns both ways
isContourConvex(poly) ==
    LET n == Len(poly)
        turn(i) == Cross(poly[i], poly[(i % n) + 1], poly[((i + 1) % n) + 1])
    IN (\A i \in 1..n : turn(i) >= 0) \/ (\A i \in 1..n : turn(i) <= 0)

\* area < minArea: the contour is skipped
BelowMinArea(contour, imageSize) ==
    contourArea(contour) * min_area_ratio_[2]
        < imageSize[1] * imageSize[2] * min_area_ratio_[1]

\* The tolerances at which the approximation is a convex 4-point polygon
QuadSteps(contour) ==
    {i \in 1..5 : /\ Len(approxPolyDP(contour, i)) = 4
                  /\ isContourConvex(approxPolyDP(contour, i))}

\* contourArea / rectArea > 0.7
FillsRect(contour) == contourArea(contour) * 10 > RectArea(contour) * 7

\* The contour makes findLargestQuadrilateral return: it is not skipped and
\* gives a polygon or an acceptable rectangle
Returns(contour, imageSize) ==
    /\ ~BelowMinArea(contour, imageSize)
    /\ \/ QuadSteps(contour) # {}
       \/ ContourSize(contour) >= 4 /\ FillsRect(contour)

\* DocumentDetector::findLargestQuadrilateral.  The contours come sorted by
\* area, largest first.  Each contour at or above the minimum area is tried
\* in turn: the first tolerance that gives a convex 4-point polygon returns
\* that polygon; failing that, the contour's minimum-area rectangle is
\* returned if the contour has 4 points or more and fills more than 0.7 of
\* it; failing that too, the next contour is tried.  The empty sequence is
\* returned when no contour is left.
findLargestQuadrilateral(contours, imageSize) ==
    LET hits == {i \in 1..Len(contours) : Returns(contours[i], imageSize)}
    IN IF hits = {} THEN <<>>
       ELSE LET contour == contours[SetMin(hits)]
            IN IF QuadSteps(contour) # {}
               THEN approxPolyDP(contour, SetMin(QuadSteps(contour)))
               ELSE minAreaRect(contour)

\* detect reporting a confidence of 0.5 on a miss
detectMissKeepsConfidence(frame) ==
    IF Len(frame.quad) = 4
    THEN LET corners == DetectorOrderCorners(ScaleBack(frame.quad, frame.cols))
         IN [found |-> TRUE, corners |-> corners,
             confidence |-> calculateConfidence(corners, frame.cols, frame.rows)]
    ELSE [found |-> FALSE, corners |-> <<>>, confidence |-> 500]

\* DocumentDetector::detect.  frame.quad is what findLargestQuadrilateral
\* returned on the resized frame: four points, or the empty sequence.
detect(frame) ==
    IF Len(frame.quad) = 4
    THEN LET corners == DetectorOrderCorners(ScaleBack(frame.quad, frame.cols))
         IN [found |-> TRUE, corners |-> corners,
             confidence |-> calculateConfidence(corners, frame.cols, frame.rows)]
    ELSE [found |-> FALSE, corners |-> <<>>, confidence |-> 0]

-----------------------------------------------------------------------------
(* QualityAssessor *)

\* static const size_t MAX_HISTORY = 5
MAX_HISTORY == 5

\* The displacement sum of checkStability: over every retained corner set,
\* the four distances between corresponding corners.
TotalDisplacement(hist, corners) ==
    SumSeq([h \in 1..Len(hist) |->
              Norm(corners[1], hist[h][1]) + Norm(corners[2], hist[h][2])
            + Norm(corners[3], hist[h][3]) + Norm(corners[4], hist[h][4])])

\* checkStability dropping the newest entry, not the oldest, when full
checkStabilityEvictNewest(hist, corners) ==
    IF Len(corners) # 4 THEN [score |-> 0, hist |-> hist]
    ELSE IF Len(hist) < 3 THEN [score |-> 0, hist |-> Append(hist, corners)]
    ELSE LET total == TotalDisplacement(hist, corners)
             comparisons == 4 * Len(hist)
             pushed == Append(hist, corners)
         IN [score |-> Max2(0, 1000 - (total * 1000) \div (comparisons * 20)),
             hist |-> IF Len(pushed) > MAX_HISTORY
                      THEN SubSeq(pushed, 1, MAX_HISTORY) ELSE pushed]

\* checkStability scoring from the third sample on
checkStabilityTwoSampleWarmUp(hist, corners) ==
    IF Len(corners) # 4 THEN [score |-> 0, hist |-> hist]
    ELSE IF Len(hist) < 2 THEN [score |-> 0, hist |-> Append(hist, corners)]
    ELSE LET total == TotalDisplacement(hist, corners)
             comparisons == 4 * Len(hist)
             pushed == Append(hist, corners)
         IN [score |-> Max2(0, 1000 - (total * 1000) \div (comparisons * 20)),
             hist |-> IF Len(pushed) > MAX_HISTORY THEN Tail(pushed) ELSE pushed]

\* checkStability scoring from the second sample on
checkStabilityShortWarmUp(hist, corners) ==
    IF Len(corners) # 4 THEN [score |-> 0, hist |-> hist]
    ELSE IF Len(hist) < 1 THEN [score |-> 0, hist |-> Append(hist, corners)]
    ELSE LET total == TotalDisplacement(hist, corners)
             comparisons == 4 * Len(hist)
             pushed == Append(hist, corners)
         IN [score |-> Max2(0, 1000 - (total * 1000) \div (comparisons * 20)),
             hist |-> IF Len(pushed) > MAX_HISTORY THEN Tail(pushed) ELSE pushed]

\* QualityAssessor::checkStability on history hist: the score returned and
\* the history left behind.  score = max(0, 1 - avgDisplacement / 20) with
\* avgDisplacement = total / comparisons, comparisons = 4 per retained set.
checkStability(hist, corners) ==
    IF Len(corners) # 4 THEN [score |-> 0, hist |-> hist]
    ELSE IF Len(hist) < 3 THEN [score |-> 0, hist |-> Append(hist, corners)]
    ELSE LET total == TotalDisplacement(hist, corners)
             comparisons == 4 * Len(hist)
             pushed == Append(hist, corners)
         IN [score |-> Max2(0, 1000 - (total * 1000) \div (comparisons * 20)),
             hist |-> IF Len(pushed) > MAX_HISTORY THEN Tail(pushed) ELSE pushed]

\* QualityScore::overall
Overall(q) ==
    (q.blur_score * 3 + q.brightness_score * 2
     + q.stability_score * 3 + q.corner_confidence * 2) \div 10

\* assess running the stability check twice on the same corners
assessChecksTwice(hist, frame, corners, cornerConfidence) ==
    LET st == IF corners # <<>> /\ Len(corners) = 4
              THEN checkStability(checkStability(hist, corners).hist, corners)
              ELSE [score |-> 0, hist |-> hist]
    IN [score |-> [corner_confidence |-> cornerConfidence,
                   blur_score |-> frame.blur,
                   brightness_score |-> frame.brightness,
                   stability_score |-> st.score],
        hist |-> st.hist]

\* QualityAssessor::assess on a non-empty frame: whole-frame blur and
\* brightness (frame.blur and frame.brightness are what detectBlur and
\* checkBrightness return on the frame), and the stability of the corners.
assess(hist, frame, corners, cornerConfidence) ==
    LET st == IF corners # <<>> /\ Len(corners) = 4
              THEN checkStability(hist, corners)
              ELSE [score |-> 0, hist |-> hist]
    IN [score |-> [corner_confidence |-> cornerConfidence,
                   blur_score |-> frame.blur,
                   brightness_score |-> frame.brightness,
                   stability_score |-> st.score],
        hist |-> st.hist]

\* region & cv::Rect(0, 0, cols, rows): TRUE when the clipped region is
\* smaller than 10 x 10, in which case the region scorers use the whole frame.
RegionTooSmall(frame, b) ==
    LET x0 == Max2(0, b[1])
        y0 == Max2(0, b[2])
        x1 == Min2(frame.cols, b[1] + b[3])
        y1 == Min2(frame.rows, b[2] + b[4])
    IN (x1 - x0 < 10) \/ (y1 - y0 < 10)

\* QualityAssessor::detectBlurInRegion (frame.roiBlur: detectBlur on the ROI)
detectBlurInRegion(frame, b) ==
    IF RegionTooSmall(frame, b) THEN frame.blur ELSE frame.roiBlur

\* QualityAssessor::checkBrightnessInRegion
checkBrightnessInRegion(frame, b) ==
    IF RegionTooSmall(frame, b) THEN frame.brightness ELSE frame.roiBrightness

\* The corners detectTextRegions derives from the overall bounds <<x, y, w, h>>
OverallCorners(b) ==
    << <<b[1], b[2]>>, <<b[1] + b[3], b[2]>>,
       <<b[1] + b[3], b[2] + b[4]>>, <<b[1], b[2] + b[4]>> >>

-----------------------------------------------------------------------------
(* CaptureEngine: frame analysis *)

\* FrameAnalysisResult::FrameAnalysisResult (text_regions_bounds, the
\* per-region copy of the text regions, is not modelled)
DefaultAnalysis ==
    [document_found |-> FALSE, table_found |-> FALSE, text_region_found |-> FALSE,
     corners |-> ZeroQuad, corner_confidence |-> 0,
     blur_score |-> 0, brightness_score |-> 0, stability_score |-> 0,
     overall_score |-> 0, capture_ready |-> FALSE,
     is_trapezoid |-> FALSE, skew_ratio |-> 0,
     top_width |-> 0, bottom_width |-> 0, left_height |-> 0, right_height |-> 0,
     vertical_skew |-> 0, horizontal_skew |-> 0,
     text_region_count |-> 0, overall_bounds |-> <<0, 0, 0, 0>>,
     coverage_ratio |-> 0]

\* |a - b| / ((a + b) / 2), or 0 when the average is not positive
Skew(a, b) == IF a + b > 0 THEN (Abs(a - b) * 20000) \div (a + b) ELSE 0

\* skew_ratio >= 0.05f in place of the strict comparison
IsTrapezoidInclusive(skew_ratio) == skew_ratio >= 500

\* is_trapezoid = skew_ratio > 0.05f
IsTrapezoid(skew_ratio) == skew_ratio > 500

\* The trapezoid metrics analyzeFrame derives from the detected corners
\* (TL = 1, TR = 2, BR = 3, BL = 4)
TrapezoidMetrics(c) ==
    LET topWidth == Norm(c[2], c[1])
        bottomWidth == Norm(c[3], c[4])
        leftHeight == Norm(c[4], c[1])
        rightHeight == Norm(c[3], c[2])
        vskew == Skew(topWidth, bottomWidth)
        hskew == Skew(leftHeight, rightHeight)
    IN [is_trapezoid |-> IsTrapezoid(Max2(vskew, hskew)),
        skew_ratio |-> Max2(vskew, hskew),
        top_width |-> topWidth, bottom_width |-> bottomWidth,
        left_height |-> leftHeight, right_height |-> rightHeight,
        vertical_skew |-> vskew, horizontal_skew |-> hskew]

\* capture_ready on the table path
CaptureReadyTable(blur, brightness, stability) ==
    blur > 600 /\ brightness > 500 /\ stability > 800

\* The fallback path gated at the table path's 0.8
CaptureReadyFallbackAtTableGate(blur, brightness, stability) ==
    blur > 600 /\ brightness > 500 /\ stability > 800

\* capture_ready on the fallback path (text regions, or nothing found)
CaptureReadyFallback(blur, brightness, stability) ==
    blur > 600 /\ brightness > 500 /\ stability > 900

\* The table branch without its first assignment, table_found = true
TablePathForgetsTableFlag(hist, frame, detection) ==
    LET m == TrapezoidMetrics(detection.corners)
        a == assess(hist, frame, detection.corners, detection.confidence)
        q == a.score
    IN [result |->
          [DefaultAnalysis EXCEPT
             !.document_found = detection.found,
             !.corner_confidence = detection.confidence,
             !.corners = detection.corners,
             !.top_width = m.top_width, !.bottom_width = m.bottom_width,
             !.left_height = m.left_height, !.right_height = m.right_height,
             !.vertical_skew = m.vertical_skew,
             !.horizontal_skew = m.horizontal_skew,
             !.skew_ratio = m.skew_ratio,
             !.is_trapezoid = m.is_trapezoid,
             !.blur_score = q.blur_score,
             !.brightness_score = q.brightness_score,
             !.stability_score = q.stability_score,
             !.overall_score = Overall(q),
             !.capture_ready = CaptureReadyTable(q.blur_score, q.brightness_score,
                                                 q.stability_score)],
        hist |-> a.hist, path |-> "table"]

\* The table branch of analyzeFrame
TablePath(hist, frame, detection) ==
    LET m == TrapezoidMetrics(detection.corners)
        a == assess(hist, frame, detection.corners, detection.confidence)
        q == a.score
    IN [result |->
          [DefaultAnalysis EXCEPT
             !.document_found = detection.found,
             !.corner_confidence = detection.confidence,
             !.table_found = TRUE,
             !.corners = detection.corners,
             !.top_width = m.top_width, !.bottom_width = m.bottom_width,
             !.left_height = m.left_height, !.right_height = m.right_height,
             !.vertical_skew = m.vertical_skew,
             !.horizontal_skew = m.horizontal_skew,
             !.skew_ratio = m.skew_ratio,
             !.is_trapezoid = m.is_trapezoid,
             !.blur_score = q.blur_score,
             !.brightness_score = q.brightness_score,
             !.stability_score = q.stability_score,
             !.overall_score = Overall(q),
             !.capture_ready = CaptureReadyTable(q.blur_score, q.brightness_score,
                                                 q.stability_score)],
        hist |-> a.hist, path |-> "table"]

\* The fallback branch of analyzeFrame.  frame.text is what detectTextRegions
\* returned: found, the overall bounds <<x, y, w, h>>, the region count and
\* the coverage ratio; the overall corners are always the 4 of the bounds.
FallbackPath(hist, frame, detection) ==
    LET base == [DefaultAnalysis EXCEPT
                   !.document_found = detection.found,
                   !.corner_confidence = detection.confidence]
        t == frame.text
    IN IF t.found
       THEN LET oc == OverallCorners(t.bounds)
                blur == detectBlurInRegion(frame, t.bounds)
                brightness == checkBrightnessInRegion(frame, t.bounds)
                a == assess(hist, frame, oc, t.coverage)
                stab == a.score.stability_score
            IN [result |->
                  [base EXCEPT
                     !.text_region_found = TRUE,
                     !.text_region_count = Min2(t.count, 8),
                     !.coverage_ratio = t.coverage,
                     !.overall_bounds = t.bounds,
                     !.corners = oc,
                     !.blur_score = blur,
                     !.brightness_score = brightness,
                     !.stability_score = stab,
                     !.corner_confidence = t.coverage,
                     !.overall_score = (blur * 4 + brightness * 2 + stab * 2
                                        + t.coverage * 2) \div 10,
                     !.capture_ready = CaptureReadyFallback(blur, brightness, stab)],
                hist |-> a.hist, path |-> "text"]
       ELSE [result |->
               [base EXCEPT
                  !.blur_score = frame.blur,
                  !.brightness_score = frame.brightness,
                  !.capture_ready = CaptureReadyFallback(frame.blur,
                                                         frame.brightness, 0)],
             hist |-> hist, path |-> "none"]

\* analyzeFrame assigning last_analysis_ on the rejected call as well
analyzeFrameStoresRejected(hist, frame) ==
    IF ~frame.ok
    THEN [result |-> DefaultAnalysis, hist |-> hist, path |-> "invalid",
          stored |-> TRUE]
    ELSE LET detection == detect(frame)
             r == IF detection.found /\ Len(detection.corners) = 4
                  THEN TablePath(hist, frame, detection)
                  ELSE FallbackPath(hist, frame, detection)
         IN [result |-> r.result, hist |-> r.hist, path |-> r.path,
             stored |-> TRUE]

\* The body of CaptureEngine::analyzeFrame as a function of the history and
\* the frame: the result, the history left behind, the branch taken and
\* whether last_analysis_ is assigned.  frame.ok is FALSE for a null buffer
\* or a non-positive width or height.  Rotation and the post-rotation crop
\* act on pixels only: the frame's fields describe the frame after them.
analyzeFrame(hist, frame) ==
    IF ~frame.ok
    THEN [result |-> DefaultAnalysis, hist |-> hist, path |-> "invalid",
          stored |-> FALSE]
    ELSE LET detection == detect(frame)
             r == IF detection.found /\ Len(detection.corners) = 4
                  THEN TablePath(hist, frame, detection)
                  ELSE FallbackPath(hist, frame, detection)
         IN [result |-> r.result, hist |-> r.hist, path |-> r.path,
             stored |-> TRUE]

-----------------------------------------------------------------------------
(* PerspectiveCorrector *)

\* PerspectiveCorrector::calculateOutputSize: the averaged edge lengths,
\* each at least 100, truncated to integers
calculateOutputSize(c) ==
    LET width == (Norm(c[2], c[1]) + Norm(c[3], c[4])) \div 2
        height == (Norm(c[4], c[1]) + Norm(c[3], c[2])) \div 2
    IN <<Max2(width, 100), Max2(height, 100)>>

\* correct estimating the size only when both requested sides are 0
correctKeepsPartialSize(image, corners, outputSize) ==
    IF Len(corners) # 4
    THEN [success |-> FALSE, image |-> image]
    ELSE LET ordered == CorrectorOrderCorners(corners)
             size == IF outputSize[1] = 0 /\ outputSize[2] = 0
                     THEN calculateOutputSize(ordered) ELSE outputSize
         IN [success |-> TRUE,
             image |-> [image EXCEPT !.cols = size[1], !.rows = size[2]]]

\* PerspectiveCorrector::correct on a non-empty image.  The homography and
\* the warp are the image library's; what the routine itself decides is the
\* success flag and the output size.
correct(image, corners, outputSize) ==
    IF Len(corners) # 4
    THEN [success |-> FALSE, image |-> image]
    ELSE LET ordered == CorrectorOrderCorners(corners)
             size == IF outputSize[1] = 0 \/ outputSize[2] = 0
                     THEN calculateOutputSize(ordered) ELSE outputSize
         IN [success |-> TRUE,
             image |-> [image EXCEPT !.cols = size[1], !.rows = size[2]]]

-----------------------------------------------------------------------------
(* CaptureEngine: enhancement *)

\* A failed result that carries no message
FailedEnhancementSilent(msg) ==
    [image_data |-> FALSE, width |-> 0, height |-> 0, channels |-> 0,
     stride |-> 0, success |-> FALSE, error_message |-> ""]

\* EnhancementResult::EnhancementResult, with the error message given
\* (image_data is modelled by whether it is non-null)
FailedEnhancement(msg) ==
    [image_data |-> FALSE, width |-> 0, height |-> 0, channels |-> 0,
     stride |-> 0, success |-> FALSE, error_message |-> msg]

\* The tail of both enhance routines: the processed image copied out
SuccessfulEnhancement(image) ==
    [image_data |-> TRUE, width |-> image.cols, height |-> image.rows,
     channels |-> image.channels, stride |-> image.cols * image.channels,
     success |-> TRUE, error_message |-> ""]

\* The rectangular crop of both enhance routines: the bounding box of the
\* corners clamped to the frame, <<x, y, w, h>>
CropRect(image, c) ==
    LET minX == SetMin({c[i][1] : i \in 1..4})
        maxX == SetMax({c[i][1] : i \in 1..4})
        minY == SetMin({c[i][2] : i \in 1..4})
        maxY == SetMax({c[i][2] : i \in 1..4})
        x == Max2(0, minX)
        y == Max2(0, minY)
    IN <<x, y, Min2(image.cols - x, maxX - minX), Min2(image.rows - y, maxY - minY)>>

\* The image and the steps after the crop-or-rectify stage.  A step list
\* ending in "failed" is the early return with "Perspective correction failed".
Geometry(image, corners, options) ==
    LET r == CropRect(image, corners)
        cropped == IF options.apply_crop /\ ~options.apply_perspective_correction
                      /\ r[3] > 0 /\ r[4] > 0
                   THEN [image |-> [image EXCEPT !.cols = r[3], !.rows = r[4]],
                         steps |-> <<"crop">>]
                   ELSE [image |-> image, steps |-> <<>>]
    IN IF options.apply_perspective_correction
       THEN LET k == correct(cropped.image, corners,
                             <<options.output_width, options.output_height>>)
            IN IF k.success
               THEN [image |-> k.image, steps |-> Append(cropped.steps, "perspective")]
               ELSE [image |-> cropped.image, steps |-> Append(cropped.steps, "failed")]
       ELSE cropped

\* The enhancement-mode switch: the step it runs (none for ENHANCE_NONE = 0
\* and for values outside the enumeration)
ModeSteps(enhance_mode) ==
    IF enhance_mode = 1 THEN <<"whitenBackground">>
    ELSE IF enhance_mode = 2 THEN <<"stretchContrast">>
    ELSE IF enhance_mode = 3 THEN <<"adaptiveBinarize">>
    ELSE IF enhance_mode = 4 THEN <<"sauvolaBinarize">>
    ELSE <<>>

\* The stages after the geometry with the enhancement mode run ahead of the
\* sharpening
FinishModeFirst(g, options, withAuto) ==
    LET s1 == IF g.image.channels = 4 THEN Append(g.steps, "bgr") ELSE g.steps
        ch == IF g.image.channels = 4 THEN 3 ELSE g.image.channels
        s2 == IF withAuto /\ options.apply_auto_enhance THEN Append(s1, "auto") ELSE s1
        s3 == s2 \o ModeSteps(options.enhance_mode)
        s4 == IF options.apply_sharpening THEN Append(s3, "sharpen") ELSE s3
    IN [image |-> [g.image EXCEPT !.channels = ch], steps |-> s4]

\* The stages after the geometry: BGRA -> BGR, auto enhancement (enhanceImage
\* only: withAuto), sharpening, then the enhancement mode, in the order the
\* code runs them.  Every stage keeps the size; the output has 3 channels.
Finish(g, options, withAuto) ==
    LET s1 == IF g.image.channels = 4 THEN Append(g.steps, "bgr") ELSE g.steps
        ch == IF g.image.channels = 4 THEN 3 ELSE g.image.channels
        s2 == IF withAuto /\ options.apply_auto_enhance THEN Append(s1, "auto") ELSE s1
        s3 == IF options.apply_sharpening THEN Append(s2, "sharpen") ELSE s2
        s4 == s3 \o ModeSteps(options.enhance_mode)
    IN [image |-> [g.image EXCEPT !.channels = ch], steps |-> s4]

\* enhanceImage looking at the corners pointer only after the frame has been
\* built and normalised
enhanceImageChecksCornersLate(img, corners, options) ==
    IF ~img.ok
    THEN [result |-> FailedEnhancement("Invalid image data"), steps |-> <<>>,
          path |-> "invalid"]
    ELSE IF corners = <<>>
    THEN [result |-> FailedEnhancement("Corners not provided"),
          steps |-> <<"bgr">>, path |-> "invalid"]
    ELSE LET frame == [cols |-> img.cols, rows |-> img.rows, channels |-> img.channels]
             g == Geometry(frame, corners, options)
         IN IF g.steps # <<>> /\ g.steps[Len(g.steps)] = "failed"
            THEN [result |-> FailedEnhancement("Perspective correction failed"),
                  steps |-> g.steps, path |-> "failed"]
            ELSE LET f == Finish(g, options, TRUE)
                 IN [result |-> SuccessfulEnhancement(f.image), steps |-> f.steps,
                     path |-> "ok"]

\* CaptureEngine::enhanceImage.  img.ok is FALSE for a null buffer or a
\* non-positive size; corners = <<>> stands for a null corners pointer.
enhanceImage(img, corners, options) ==
    IF ~img.ok
    THEN [result |-> FailedEnhancement("Invalid image data"), steps |-> <<>>,
          path |-> "invalid"]
    ELSE IF corners = <<>>
    THEN [result |-> FailedEnhancement("Corners not provided"), steps |-> <<>>,
          path |-> "invalid"]
    ELSE LET frame == [cols |-> img.cols, rows |-> img.rows, channels |-> img.channels]
             g == Geometry(frame, corners, options)
         IN IF g.steps # <<>> /\ g.steps[Len(g.steps)] = "failed"
            THEN [result |-> FailedEnhancement("Perspective correction failed"),
                  steps |-> g.steps, path |-> "failed"]
            ELSE LET f == Finish(g, options, TRUE)
                 IN [result |-> SuccessfulEnhancement(f.image), steps |-> f.steps,
                     path |-> "ok"]

\* calculateVirtualTrapezoid applying the skew of any table, trapezoid or not
calculateVirtualTrapezoidAnyTable(la, guide) ==
    LET guide_width == guide[3] - guide[1]
        guide_height == guide[4] - guide[2]
        skewed == la.table_found
        topW == la.top_width
        bottomW == la.bottom_width
        leftH == la.left_height
        rightH == la.right_height
        doV == skewed /\ la.vertical_skew > 100 /\ topW + bottomW > 0
        doH == skewed /\ la.horizontal_skew > 100 /\ leftH + rightH > 0
        h_adjustment == IF doV
                        THEN (guide_width * Abs(bottomW - topW)) \div (topW + bottomW)
                        ELSE 0
        v_adjustment == IF doH
                        THEN (guide_height * Abs(rightH - leftH)) \div (leftH + rightH)
                        ELSE 0
        shrinkTop == doV /\ bottomW > topW
        shrinkBottom == doV /\ ~(bottomW > topW)
        shrinkLeft == doH /\ rightH > leftH
        shrinkRight == doH /\ ~(rightH > leftH)
        tl == <<guide[1] + (IF shrinkTop THEN h_adjustment ELSE 0),
                guide[2] + (IF shrinkLeft THEN v_adjustment ELSE 0)>>
        tr == <<guide[3] - (IF shrinkTop THEN h_adjustment ELSE 0),
                guide[2] + (IF shrinkRight THEN v_adjustment ELSE 0)>>
        br == <<guide[3] - (IF shrinkBottom THEN h_adjustment ELSE 0),
                guide[4] - (IF shrinkRight THEN v_adjustment ELSE 0)>>
        bl == <<guide[1] + (IF shrinkBottom THEN h_adjustment ELSE 0),
                guide[4] - (IF shrinkLeft THEN v_adjustment ELSE 0)>>
    IN <<tl, tr, br, bl>>

\* calculateVirtualTrapezoid with the comparison of the widths turned round:
\* the wider of the top and bottom edges is the one shrunk
calculateVirtualTrapezoidShrinksWider(la, guide) ==
    LET guide_width == guide[3] - guide[1]
        guide_height == guide[4] - guide[2]
        skewed == la.table_found /\ la.is_trapezoid
        topW == la.top_width
        bottomW == la.bottom_width
        leftH == la.left_height
        rightH == la.right_height
        doV == skewed /\ la.vertical_skew > 100 /\ topW + bottomW > 0
        doH == skewed /\ la.horizontal_skew > 100 /\ leftH + rightH > 0
        h_adjustment == IF doV
                        THEN (guide_width * Abs(bottomW - topW)) \div (topW + bottomW)
                        ELSE 0
        v_adjustment == IF doH
                        THEN (guide_height * Abs(rightH - leftH)) \div (leftH + rightH)
                        ELSE 0
        shrinkTop == doV /\ bottomW < topW
        shrinkBottom == doV /\ ~(bottomW < topW)
        shrinkLeft == doH /\ rightH > leftH
        shrinkRight == doH /\ ~(rightH > leftH)
        tl == <<guide[1] + (IF shrinkTop THEN h_adjustment ELSE 0),
                guide[2] + (IF shrinkLeft THEN v_adjustment ELSE 0)>>
        tr == <<guide[3] - (IF shrinkTop THEN h_adjustment ELSE 0),
                guide[2] + (IF shrinkRight THEN v_adjustment ELSE 0)>>
        br == <<guide[3] - (IF shrinkBottom THEN h_adjustment ELSE 0),
                guide[4] - (IF shrinkRight THEN v_adjustment ELSE 0)>>
        bl == <<guide[1] + (IF shrinkBottom THEN h_adjustment ELSE 0),
                guide[4] - (IF shrinkLeft THEN v_adjustment ELSE 0)>>
    IN <<tl, tr, br, bl>>

\* CaptureEngine::calculateVirtualTrapezoid: la is last_analysis_, guide is
\* <<left, top, right, bottom>>.  guide_width * |skewDiff| / 2 with
\* skewDiff = (bottomW - topW) / avgW is guide_width * |bottomW - topW| / (topW + bottomW).
calculateVirtualTrapezoid(la, guide) ==
    LET guide_width == guide[3] - guide[1]
        guide_height == guide[4] - guide[2]
        skewed == la.table_found /\ la.is_trapezoid
        topW == la.top_width
        bottomW == la.bottom_width
        leftH == la.left_height
        rightH == la.right_height
        doV == skewed /\ la.vertical_skew > 100 /\ topW + bottomW > 0
        doH == skewed /\ la.horizontal_skew > 100 /\ leftH + rightH > 0
        h_adjustment == IF doV
                        THEN (guide_width * Abs(bottomW - topW)) \div (topW + bottomW)
                        ELSE 0
        v_adjustment == IF doH
                        THEN (guide_height * Abs(rightH - leftH)) \div (leftH + rightH)
                        ELSE 0
        shrinkTop == doV /\ bottomW > topW
        shrinkBottom == doV /\ ~(bottomW > topW)
        shrinkLeft == doH /\ rightH > leftH
        shrinkRight == doH /\ ~(rightH > leftH)
        tl == <<guide[1] + (IF shrinkTop THEN h_adjustment ELSE 0),
                guide[2] + (IF shrinkLeft THEN v_adjustment ELSE 0)>>
        tr == <<guide[3] - (IF shrinkTop THEN h_adjustment ELSE 0),
                guide[2] + (IF shrinkRight THEN v_adjustment ELSE 0)>>
        br == <<guide[3] - (IF shrinkBottom THEN h_adjustment ELSE 0),
                guide[4] - (IF shrinkRight THEN v_adjustment ELSE 0)>>
        bl == <<guide[1] + (IF shrinkBottom THEN h_adjustment ELSE 0),
                guide[4] - (IF shrinkLeft THEN v_adjustment ELSE 0)>>
    IN <<tl, tr, br, bl>>

\* The caller's switches left as they came
AdjustedOptionsFromCaller(la, options) == options

\* The options adjusted to rectify after any table, trapezoid or not
AdjustedOptionsAnyTable(la, options) ==
    [options EXCEPT
       !.apply_perspective_correction = la.table_found,
       !.apply_crop = ~la.table_found]

\* The options enhanceImageWithGuideFrame works with: the caller's, with
\* the perspective and crop switches overwritten from last_analysis_
AdjustedOptions(la, options) ==
    [options EXCEPT
       !.apply_perspective_correction = la.table_found /\ la.is_trapezoid,
       !.apply_crop = ~(la.table_found /\ la.is_trapezoid)]

\* enhanceImageWithGuideFrame from the crop-or-rectify stage on, with the
\* virtual corners and the adjusted options it has worked out
GuideFrameStages(img, rotation, corners, adjusted) ==
    LET turned == rotation = 90 \/ rotation = 270
        frame == [cols |-> IF turned THEN img.rows ELSE img.cols,
                  rows |-> IF turned THEN img.cols ELSE img.rows,
                  channels |-> img.channels]
        g == Geometry(frame, corners, adjusted)
    IN IF g.steps # <<>> /\ g.steps[Len(g.steps)] = "failed"
       THEN [result |-> FailedEnhancement("Perspective correction failed"),
             steps |-> g.steps, path |-> "failed", corners |-> corners,
             adjusted |-> adjusted, frame |-> <<frame.cols, frame.rows>>]
       ELSE LET f == Finish(g, adjusted, FALSE)
            IN [result |-> SuccessfulEnhancement(f.image), steps |-> f.steps,
                path |-> "ok", corners |-> corners, adjusted |-> adjusted,
                frame |-> <<frame.cols, frame.rows>>]

\* CaptureEngine::enhanceImageWithGuideFrame.  Rotation acts on pixels and
\* swaps the frame's sides for 90 and 270.
enhanceImageWithGuideFrame(la, img, guide, options, rotation) ==
    IF ~img.ok
    THEN [result |-> FailedEnhancement("Invalid image data"), steps |-> <<>>,
          path |-> "invalid", corners |-> ZeroQuad, adjusted |-> options,
          frame |-> <<0, 0>>]
    ELSE GuideFrameStages(img, rotation, calculateVirtualTrapezoid(la, guide),
                          AdjustedOptions(la, options))

-----------------------------------------------------------------------------
(* FFI bridge *)

\* analyze_frame: engine and data are FALSE for a null engine or a null
\* buffer.  The reply is the JSON object: either the one key "error", or
\* the fields of the FrameAnalysisResult (scores printed to 4 decimals,
\* lengths to 2: every digit the model carries).  The inner call is the
\* engine's, with what it does to the history and to last_analysis_.
analyze_frame(engine, data, hist, frame) ==
    IF ~engine \/ ~data
    THEN [result |-> DefaultAnalysis, hist |-> hist, path |-> "invalid",
          stored |-> FALSE, json |-> [error |-> "Invalid parameters"]]
    ELSE LET r == analyzeFrame(hist, frame)
         IN [result |-> r.result, hist |-> r.hist, path |-> r.path,
             stored |-> r.stored, json |-> r.result]

\* enhance_image: the options it builds (crop exactly when no perspective
\* correction is asked for) and the engine call
enhance_image(engine, data, img, corners, apply_perspective, apply_enhance, apply_sharpening, enhance_mode, output_width, output_height) ==
    IF ~engine \/ ~data
    THEN [result |-> FailedEnhancement("Invalid parameters"), steps |-> <<>>,
          path |-> "invalid"]
    ELSE enhanceImage(img, corners,
                      [apply_crop |-> ~apply_perspective,
                       apply_perspective_correction |-> apply_perspective,
                       apply_auto_enhance |-> apply_enhance,
                       apply_sharpening |-> apply_sharpening,
                       enhance_mode |-> enhance_mode,
                       output_width |-> output_width,
                       output_height |-> output_height])

\* enhance_image_with_guide_frame: both geometry switches off and no output
\* size, then the engine call
enhance_image_with_guide_frame(engine, data, la, img, guide, apply_sharpening, enhance_mode, rotation) ==
    LET options == [apply_crop |-> FALSE, apply_perspective_correction |-> FALSE,
                    apply_auto_enhance |-> FALSE,
                    apply_sharpening |-> apply_sharpening,
                    enhance_mode |-> enhance_mode,
                    output_width |-> 0, output_height |-> 0]
    IN IF ~engine \/ ~data
       THEN [result |-> FailedEnhancement("Invalid parameters"), steps |-> <<>>,
             path |-> "invalid", corners |-> ZeroQuad, adjusted |-> options,
             frame |-> <<0, 0>>]
       ELSE enhanceImageWithGuideFrame(la, img, guide, options, rotation)

-----------------------------------------------------------------------------
(* State machine *)

\* A reset that leaves the history in place
resetKeepsHistory(hist) == hist

\* QualityAssessor::reset: corner_history_.clear()
reset(hist) == <<>>

NoEnhance ==
    [steps |-> <<>>, corners |-> ZeroQuad, guide |-> <<0, 0, 0, 0>>,
     frame |-> <<0, 0>>, perspective |-> FALSE, crop |-> FALSE,
     output |-> <<0, 0>>]

NoOrder == <<>>

NoImage == <<>>

\* The engine after CaptureEngine::CaptureEngine
InitEngine ==
    /\ corner_history_ = <<>>
    /\ last_analysis_ = DefaultAnalysis
    /\ call = [op |-> "create", path |-> "ok"]
    /\ ret = [void |-> TRUE]
    /\ enh = NoEnhance
    /\ submitted = <<>>

OrderIdle ==
    /\ ord_in = ZeroQuad
    /\ ord_det = NoOrder
    /\ ord_cor = NoOrder
    /\ ord_pc = "off"

SauvolaIdle ==
    /\ sv_in = NoImage
    /\ sv_out = NoImage

NoContours == <<>>

\* The contour study is not running
DetectIdle == det_in = NoContours /\ det_out = NoContours

NoGuideCall == <<>>
GuideIdle == gf = NoGuideCall

\* What CaptureEngine::analyzeFrame does to the engine
AnalyzeFrameCall(frame) ==
    \E r \in {analyzeFrame(corner_history_, frame)} :
       /\ corner_history_' = r.hist
       /\ last_analysis_' = IF r.stored THEN r.result ELSE last_analysis_
       /\ call' = [op |-> "analyzeFrame", path |-> r.path]
       /\ ret' = r.result
       /\ submitted' = IF r.path \in {"table", "text"}
                       THEN Append(submitted, r.result.corners)
                       ELSE submitted
       /\ UNCHANGED <<enh, ord_in, ord_det, ord_cor, ord_pc, sv_in, sv_out, det_in, det_out>>

\* CaptureEngine::analyzeFrame
AnalyzeFrame(frame) == AnalyzeFrameCall(frame) /\ UNCHANGED gf

\* CaptureEngine::enhanceImage
EnhanceImage(img, corners, options) ==
    \E r \in {enhanceImage(img, corners, options)} :
       /\ call' = [op |-> "enhanceImage", path |-> r.path]
       /\ ret' = r.result
       /\ enh' = [steps |-> r.steps,
                  corners |-> IF corners = <<>> THEN ZeroQuad ELSE corners,
                  guide |-> <<0, 0, 0, 0>>, frame |-> <<img.cols, img.rows>>,
                  perspective |-> options.apply_perspective_correction,
                  crop |-> options.apply_crop,
                  output |-> <<options.output_width, options.output_height>>]
       /\ UNCHANGED <<corner_history_, last_analysis_, submitted,
                      ord_in, ord_det, ord_cor, ord_pc, sv_in, sv_out, det_in, det_out, gf>>

\* enhanceImageWithGuideFrame consuming the stored analysis
EnhanceGuideClearsAnalysis(img, guide, options, rotation) ==
    \E r \in {enhanceImageWithGuideFrame(last_analysis_, img, guide, options, rotation)} :
       /\ call' = [op |-> "enhanceImageWithGuideFrame", path |-> r.path]
       /\ ret' = r.result
       /\ enh' = [steps |-> r.steps, corners |-> r.corners, guide |-> guide,
                  frame |-> r.frame,
                  perspective |-> r.adjusted.apply_perspective_correction,
                  crop |-> r.adjusted.apply_crop,
                  output |-> <<r.adjusted.output_width, r.adjusted.output_height>>]
       /\ last_analysis_' = DefaultAnalysis
       /\ UNCHANGED <<corner_history_, submitted,
                      ord_in, ord_det, ord_cor, ord_pc, sv_in, sv_out, det_in, det_out, gf>>

\* CaptureEngine::enhanceImageWithGuideFrame
EnhanceImageWithGuideFrame(img, guide, options, rotation) ==
    \E r \in {enhanceImageWithGuideFrame(last_analysis_, img, guide, options, rotation)} :
       /\ call' = [op |-> "enhanceImageWithGuideFrame", path |-> r.path]
       /\ ret' = r.result
       /\ enh' = [steps |-> r.steps, corners |-> r.corners, guide |-> guide,
                  frame |-> r.frame,
                  perspective |-> r.adjusted.apply_perspective_correction,
                  crop |-> r.adjusted.apply_crop,
                  output |-> <<r.adjusted.output_width, r.adjusted.output_height>>]
       /\ UNCHANGED <<corner_history_, last_analysis_, submitted,
                      ord_in, ord_det, ord_cor, ord_pc, sv_in, sv_out, det_in, det_out, gf>>

\* CaptureEngine::reset
Reset ==
    /\ corner_history_' = reset(corner_history_)
    /\ submitted' = <<>>
    /\ call' = [op |-> "reset", path |-> "ok"]
    /\ ret' = [void |-> TRUE]
    /\ UNCHANGED <<last_analysis_, enh, ord_in, ord_det, ord_cor, ord_pc, sv_in, sv_out, det_in, det_out, gf>>

\* analyze_frame called through the FFI bridge
FfiAnalyzeFrame(engine, data, frame) ==
    \E r \in {analyze_frame(engine, data, corner_history_, frame)} :
       /\ corner_history_' = r.hist
       /\ last_analysis_' = IF r.stored THEN r.result ELSE last_analysis_
       /\ call' = [op |-> "analyze_frame", path |-> r.path]
       /\ ret' = r.json
       /\ submitted' = IF r.path \in {"table", "text"}
                       THEN Append(submitted, r.result.corners)
                       ELSE submitted
       /\ UNCHANGED <<enh, ord_in, ord_det, ord_cor, ord_pc, sv_in, sv_out, det_in, det_out, gf>>

\* enhance_image called through the FFI bridge
FfiEnhanceImage(engine, data, img, corners, apply_perspective, apply_enhance, apply_sharpening, enhance_mode, output_width, output_height) ==
    \E r \in {enhance_image(engine, data, img, corners, apply_perspective,
                            apply_enhance, apply_sharpening, enhance_mode,
                            output_width, output_height)} :
       /\ call' = [op |-> "enhance_image", path |-> r.path]
       /\ ret' = r.result
       /\ enh' = [steps |-> r.steps,
                  corners |-> IF corners = <<>> THEN ZeroQuad ELSE corners,
                  guide |-> <<0, 0, 0, 0>>, frame |-> <<img.cols, img.rows>>,
                  perspective |-> apply_perspective,
                  crop |-> ~apply_perspective,
                  output |-> <<output_width, output_height>>]
       /\ UNCHANGED <<corner_history_, last_analysis_, submitted,
                      ord_in, ord_det, ord_cor, ord_pc, sv_in, sv_out, det_in, det_out, gf>>

\* enhance_image_with_guide_frame called through the FFI bridge
FfiEnhanceImageWithGuideFrame(engine, data, img, guide, apply_sharpening, enhance_mode, rotation) ==
    \E r \in {enhance_image_with_guide_frame(engine, data, last_analysis_, img,
                                             guide, apply_sharpening,
                                             enhance_mode, rotation)} :
       /\ call' = [op |-> "enhance_image_with_guide_frame", path |-> r.path]
       /\ ret' = r.result
       /\ enh' = [steps |-> r.steps, corners |-> r.corners, guide |-> guide,
                  frame |-> r.frame,
                  perspective |-> r.adjusted.apply_perspective_correction,
                  crop |-> r.adjusted.apply_crop,
                  output |-> <<r.adjusted.output_width, r.adjusted.output_height>>]
       /\ UNCHANGED <<corner_history_, last_analysis_, submitted,
                      ord_in, ord_det, ord_cor, ord_pc, sv_in, sv_out, det_in, det_out, gf>>

-----------------------------------------------------------------------------
(* Inputs *)

\* The corners of the axis-aligned rectangle at (x, y) of size w x h, in
\* the order TL, TR, BR, BL
Rect(x, y, w, h) == << <<x, y>>, <<x + w, y>>, <<x + w, y + h>>, <<x, y + h>> >>

\* A contour polygon starts at an arbitrary vertex: the same quadrilateral
\* listed from its third corner
Rotated(q) == <<q[3], q[4], q[1], q[2]>>

NoText == [found |-> FALSE, bounds |-> <<0, 0, 0, 0>>, count |-> 0, coverage |-> 0]

\* A 480 x 360 frame in which the detector saw quad (or nothing: <<>>) and
\* the text-region pass saw text, with the given sharpness and exposure
Frame(quad, text, blur, brightness) ==
    [ok |-> TRUE, cols |-> 480, rows |-> 360, quad |-> quad, text |-> text,
     blur |-> blur, brightness |-> brightness,
     roiBlur |-> blur, roiBrightness |-> brightness]

\* A null buffer, or a width or height that is not positive
BadFrame == [Frame(<<>>, NoText, 0, 0) EXCEPT !.ok = FALSE]

\* A frame showing a table whose outline is the rectangle moved right by dx
TableAt(dx, blur, brightness) ==
    Frame(Rotated(Rect(100 + dx, 80, 240, 180)), NoText, blur, brightness)

\* A frame with no table, whose text blocks span the rectangle moved by dx;
\* blur and brightness are the scores of the text region, the whole frame
\* scoring 650 on both
TextAt(dx, blur, brightness) ==
    [Frame(<<>>, [found |-> TRUE, bounds |-> <<100 + dx, 80, 240, 180>>,
                  count |-> 3, coverage |-> 400], 650, 650)
       EXCEPT !.roiBlur = blur, !.roiBrightness = brightness]

BlankFrame == Frame(<<>>, NoText, 700, 700)

GoodImage == [ok |-> TRUE, cols |-> 480, rows |-> 360, channels |-> 4]
BadImage == [ok |-> FALSE, cols |-> 0, rows |-> 0, channels |-> 4]

\* EnhancementOptions as the FFI wrappers fill them in
Options(perspective, crop, sharpen, mode) ==
    [apply_crop |-> crop, apply_perspective_correction |-> perspective,
     apply_auto_enhance |-> FALSE, apply_sharpening |-> sharpen,
     enhance_mode |-> mode, output_width |-> 0, output_height |-> 0]

-----------------------------------------------------------------------------
(* Spec: a capture session -- long runs of frames, few kinds of frame *)

\* Most corner sets submitted between two resets
MaxSubmit == 6

SessionFrames ==
    {BadFrame, BlankFrame,
     TableAt(0, 700, 700), TableAt(40, 700, 700), TextAt(2, 700, 700)}

SessionGuides == {<<100, 80, 340, 260>>}

Init == InitEngine /\ OrderIdle /\ SauvolaIdle /\ DetectIdle /\ GuideIdle

Next ==
    \/ \E f \in SessionFrames : Len(submitted) < MaxSubmit /\ AnalyzeFrame(f)
    \/ \E img \in {GoodImage, BadImage}, c \in {<<>>, Rect(100, 80, 240, 180)} :
          EnhanceImage(img, c, Options(TRUE, FALSE, FALSE, 0))
    \/ \E img \in {GoodImage, BadImage}, g \in SessionGuides :
          EnhanceImageWithGuideFrame(img, g, Options(FALSE, FALSE, TRUE, 4), 0)
    \/ Reset

Spec == Init /\ [][Next]_allvars

-----------------------------------------------------------------------------
(* SpecReady: the readiness decision -- short runs, frames at the thresholds *)

MaxSubmitReady == 4

ReadyFrames ==
    {BadFrame, BlankFrame,
     TableAt(0, 601, 501), TableAt(0, 600, 501), TableAt(0, 601, 500),
     TableAt(3, 601, 501), TableAt(4, 601, 501),
     TextAt(0, 601, 501), TextAt(2, 601, 501), TextAt(3, 601, 501),
     TextAt(0, 600, 501), TextAt(0, 601, 500)}

NextReady ==
    \/ \E f \in ReadyFrames : Len(submitted) < MaxSubmitReady /\ AnalyzeFrame(f)
    \/ \E img \in {GoodImage, BadImage} :
          EnhanceImage(img, Rect(100, 80, 240, 180), Options(FALSE, TRUE, FALSE, 1))
    \/ \E img \in {GoodImage, BadImage} :
          EnhanceImageWithGuideFrame(img, <<100, 80, 340, 260>>,
                                     Options(FALSE, FALSE, FALSE, 0), 0)
    \/ Reset

SpecReady == Init /\ [][NextReady]_allvars

-----------------------------------------------------------------------------
(* SpecGeom: trapezoid geometry -- very short runs, many shapes of table *)

MaxSubmitGeom == 2

\* Table outlines (TL, TR, BR, BL) by the skew they measure:
\* top 267, bottom 254: vertical skew 0.0499
Quad499 == << <<100, 80>>, <<367, 80>>, <<360, 260>>, <<106, 260>> >>
\* top 246, bottom 234: vertical skew 0.05 exactly
Quad500 == << <<100, 80>>, <<346, 80>>, <<340, 260>>, <<106, 260>> >>
\* top 286, bottom 272: vertical skew 0.0501
Quad501 == << <<100, 80>>, <<386, 80>>, <<379, 260>>, <<107, 260>> >>
\* top 240, bottom 234: vertical skew 0.025, above 0.01 and below 0.05
QuadSlight == << <<100, 80>>, <<340, 80>>, <<337, 260>>, <<103, 260>> >>
\* top 160, bottom 240: bottom wider, vertical skew 0.4
QuadBottomWide == << <<140, 80>>, <<300, 80>>, <<340, 260>>, <<100, 260>> >>
\* top 240, bottom 160: top wider
QuadTopWide == << <<100, 80>>, <<340, 80>>, <<300, 260>>, <<140, 260>> >>
\* left 180, right 120: left taller, horizontal skew 0.4
QuadLeftTall == << <<100, 80>>, <<340, 110>>, <<340, 230>>, <<100, 260>> >>
\* left 120, right 180: right taller
QuadRightTall == << <<100, 110>>, <<340, 80>>, <<340, 260>>, <<100, 230>> >>
\* top 240, bottom 230: vertical skew 0.0425; left 180, right 140:
\* horizontal skew 0.25
QuadBoth == << <<100, 80>>, <<340, 100>>, <<330, 240>>, <<100, 260>> >>
\* top 50, bottom 240: bottom nearly five times as wide, vertical skew 1.31
QuadNarrowTop == << <<170, 80>>, <<220, 80>>, <<340, 260>>, <<100, 260>> >>

\* A 960 x 720 frame: the detector works on it at half size, so the
\* rectangle it finds is scaled back by 2
WideFrame ==
    [Frame(Rotated(Rect(50, 40, 120, 90)), NoText, 700, 700)
       EXCEPT !.cols = 960, !.rows = 720]

GeomFrames ==
    {BadFrame, BlankFrame, TextAt(0, 700, 700), WideFrame}
    \cup {Frame(Rotated(q), NoText, 700, 700) :
            q \in {Quad499, Quad500, Quad501, QuadSlight, QuadBottomWide,
                   QuadTopWide, QuadLeftTall, QuadRightTall, QuadBoth,
                   QuadNarrowTop, Rect(100, 80, 240, 180)}}

GeomGuides == {<<100, 80, 340, 260>>, <<0, 0, 480, 360>>}

NextGeom ==
    \/ \E f \in GeomFrames : Len(submitted) < MaxSubmitGeom /\ AnalyzeFrame(f)
    \/ \E img \in {GoodImage, BadImage} :
          EnhanceImage(img, Quad501, Options(TRUE, FALSE, TRUE, 2))
    \/ \E img \in {GoodImage, BadImage}, g \in GeomGuides, p \in BOOLEAN,
           rot \in {0, 90} :
          EnhanceImageWithGuideFrame(img, g, Options(p, ~p, FALSE, 3), rot)
    \/ Reset

SpecGeom == Init /\ [][NextGeom]_allvars

-----------------------------------------------------------------------------
(* SpecOrder: the two orderCorners routines on every 4-point input of a grid *)

\* Coordinates of the grid run from 0 to GridMax
GridMax == 2

GridPoints == (0..GridMax) \X (0..GridMax)

InitOrder ==
    /\ InitEngine
    /\ ord_in \in GridPoints \X GridPoints \X GridPoints \X GridPoints
    /\ ord_det = NoOrder
    /\ ord_cor = NoOrder
    /\ ord_pc = "in"
    /\ SauvolaIdle
    /\ DetectIdle
    /\ GuideIdle

\* DocumentDetector::orderCorners applied to the input, then to its own output
OrderDetector ==
    /\ ord_det = NoOrder
    /\ \E o \in {DetectorOrderCorners(ord_in)} :
          ord_det' = <<o, DetectorOrderCorners(o)>>
    /\ ord_pc' = "det"
    /\ UNCHANGED <<ord_in, ord_cor, sv_in, sv_out, det_in, det_out, gf>>
    /\ UNCHANGED vars

\* PerspectiveCorrector::orderCorners applied to the input, then to its own output
OrderCorrector ==
    /\ ord_cor = NoOrder
    /\ \E o \in {CorrectorOrderCorners(ord_in)} :
          ord_cor' = <<o, CorrectorOrderCorners(o)>>
    /\ ord_pc' = "cor"
    /\ UNCHANGED <<ord_in, ord_det, sv_in, sv_out, det_in, det_out, gf>>
    /\ UNCHANGED vars

NextOrder == OrderDetector \/ OrderCorrector

SpecOrder == InitOrder /\ [][NextOrder]_allvars

-----------------------------------------------------------------------------
(* SpecEnhance: the enhance operations and the FFI bridge -- one analysed   *)
(* frame at most, many corner sets, switches, modes and output sizes        *)

MaxSubmitEnhance == 1

\* An all-black frame: no edges, no text, Laplacian variance 0, mean 0
BlackFrame == Frame(<<>>, NoText, 0, 0)

EnhanceFrames == {BadFrame, BlackFrame, Frame(Rotated(Quad501), NoText, 700, 700)}

\* Corner sets handed to enhanceImage: a 60 x 40 rectangle (below the
\* 100 x 100 minimum), a 240 x 180 rectangle listed from its third corner,
\* a trapezoid, four coincident points, three points on one line
SmallRect == Rect(100, 80, 60, 40)
Coincident == << <<100, 80>>, <<100, 80>>, <<100, 80>>, <<100, 80>> >>
ThreeInLine == << <<100, 80>>, <<200, 80>>, <<300, 80>>, <<100, 260>> >>

EnhanceCorners ==
    {<<>>, SmallRect, Rotated(Rect(100, 80, 240, 180)), Quad501, Coincident,
     ThreeInLine}

\* Requested output sizes: none, both, one of the two
OutputSizes == {<<0, 0>>, <<640, 480>>, <<640, 0>>}

\* EnhancementOptions with an output size; crop exactly when not rectifying
OptionsSized(perspective, sharpen, mode, size) ==
    [Options(perspective, ~perspective, sharpen, mode)
       EXCEPT !.output_width = size[1], !.output_height = size[2]]

NextEnhance ==
    \/ \E f \in EnhanceFrames : Len(submitted) < MaxSubmitEnhance /\ AnalyzeFrame(f)
    \/ \E engine \in BOOLEAN, data \in BOOLEAN, f \in EnhanceFrames :
          /\ Len(submitted) < MaxSubmitEnhance
          /\ data \/ ~f.ok
          /\ FfiAnalyzeFrame(engine, data, f)
    \/ \E img \in {GoodImage, BadImage}, c \in EnhanceCorners, p \in BOOLEAN,
           sh \in BOOLEAN, mode \in {0, 4}, size \in OutputSizes :
          EnhanceImage(img, c, OptionsSized(p, sh, mode, size))
    \/ \E engine \in BOOLEAN, data \in BOOLEAN, img \in {GoodImage, BadImage},
           c \in {<<>>, Quad501}, p \in BOOLEAN, auto \in BOOLEAN :
          /\ data \/ ~img.ok
          /\ FfiEnhanceImage(engine, data, img, c, p, auto, TRUE, 2, 0, 0)
    \/ \E img \in {GoodImage, BadImage}, g \in GeomGuides, sh \in BOOLEAN,
           mode \in {0, 3}, rot \in {0, 90} :
          EnhanceImageWithGuideFrame(img, g, Options(TRUE, TRUE, sh, mode), rot)
    \/ \E engine \in BOOLEAN, data \in BOOLEAN, img \in {GoodImage, BadImage} :
          /\ data \/ ~img.ok
          /\ FfiEnhanceImageWithGuideFrame(engine, data, img,
                                           <<100, 80, 340, 260>>, TRUE, 4, 0)
    \/ Reset

SpecEnhance == Init /\ [][NextEnhance]_allvars

-----------------------------------------------------------------------------
(* SpecSauvola: ImageEnhancer::sauvolaBinarize on small grey images *)

\* a/b < c/d for a, c >= 0 and b, d > 0, by integer parts and remainders, so
\* that no product is formed
RECURSIVE FracLess(_, _, _, _)
FracLess(a, b, c, d) ==
    LET qa == a \div b
        qc == c \div d
        ra == a % b
        rc == c % d
    IN IF qa # qc THEN qa < qc
       ELSE IF rc = 0 THEN FALSE
       ELSE IF ra = 0 THEN TRUE
       ELSE FracLess(d, rc, b, ra)

\* The arguments the engine passes: window 15, k = 0.2 (as the fraction 1/5),
\* R = 128
SauvolaWindow == 15
SauvolaK == <<1, 5>>
SauvolaR == 128

\* if (windowSize % 2 == 0) windowSize++;  halfWindow = windowSize / 2
HalfWindow(windowSize) ==
    (IF windowSize % 2 = 0 THEN windowSize + 1 ELSE windowSize) \div 2

\* The window of pixel (x, y) clipped to the image, and what the two integral
\* images give for it: <<area, sum, sqSum>>.  Pixels are 1-based here.
WindowStats(gray, x, y, halfWindow) ==
    LET x1 == Max2(1, x - halfWindow)
        y1 == Max2(1, y - halfWindow)
        x2 == Min2(Len(gray[1]), x + halfWindow)
        y2 == Min2(Len(gray), y + halfWindow)
        row(j) == [i \in 1..(x2 - x1 + 1) |-> gray[j][x1 + i - 1]]
        sqrow(j) == [i \in 1..(x2 - x1 + 1) |-> gray[j][x1 + i - 1] * gray[j][x1 + i - 1]]
    IN << (x2 - x1 + 1) * (y2 - y1 + 1),
          SumSeq([j \in 1..(y2 - y1 + 1) |-> SumSeq(row(y1 + j - 1))]),
          SumSeq([j \in 1..(y2 - y1 + 1) |-> SumSeq(sqrow(y1 + j - 1))]) >>

\* area^2 * variance, floored at 0 as std::max(0.0, variance) floors it
VarianceTimesArea2(st) == Max2(0, st[3] * st[1] - st[2] * st[2])

\* pixel > threshold with threshold = mean * (1 + k * (stddev / R - 1)),
\* mean = sum / area and stddev = sqrt(V) / area, V == VarianceTimesArea2:
\*    pixel * kd * area^2 * R - sum * (kd - kn) * area * R  >  sum * kn * sqrt(V)
\* decided exactly: both sides squared and compared as fractions
AboveThreshold(pixel, st, k, R) ==
    LET area == st[1]
        sum == st[2]
        V == VarianceTimesArea2(st)
        L == pixel * k[2] * area * area * R - sum * (k[2] - k[1]) * area * R
        M == sum * k[1]
    IN IF L <= 0 THEN FALSE
       ELSE IF M = 0 \/ V = 0 THEN TRUE
       ELSE FracLess(V, L, L, M * M)

\* A sauvolaBinarize that compares with >= : a pixel equal to its threshold
\* is set as well
sauvolaBinarizeInclusive(input, windowSize, k, R) ==
    IF input = <<>> THEN input
    ELSE [y \in 1..Len(input) |->
            [x \in 1..Len(input[1]) |->
                LET st == WindowStats(input, x, y, HalfWindow(windowSize))
                    V == VarianceTimesArea2(st)
                    L == input[y][x] * k[2] * st[1] * st[1] * R
                             - st[2] * (k[2] - k[1]) * st[1] * R
                    M == st[2] * k[1]
                    equal == IF L = 0 THEN M = 0 \/ V = 0
                             ELSE /\ L > 0 /\ M # 0 /\ V # 0
                                  /\ ~FracLess(V, L, L, M * M)
                                  /\ ~FracLess(L, M * M, V, L)
                IN IF AboveThreshold(input[y][x], st, k, R) \/ equal
                   THEN 255 ELSE 0]]

\* ImageEnhancer::sauvolaBinarize on a grey image (a colour input is first
\* converted to grey): an empty input comes back as it is; otherwise each
\* pixel is 255 where it lies above its window's threshold and 0 elsewhere.
\* The result's three channels all carry this value.
sauvolaBinarize(input, windowSize, k, R) ==
    IF input = <<>> THEN input
    ELSE [y \in 1..Len(input) |->
            [x \in 1..Len(input[1]) |->
                IF AboveThreshold(input[y][x],
                                  WindowStats(input, x, y, HalfWindow(windowSize)),
                                  k, R)
                THEN 255 ELSE 0]]

\* The routine runs on the image in sv_in
SauvolaBinarize ==
    /\ sv_in # NoImage
    /\ sv_out = NoImage
    /\ sv_out' = sauvolaBinarize(sv_in[1], sv_in[2], SauvolaK, SauvolaR)
    /\ UNCHANGED <<corner_history_, last_analysis_, call, ret, enh, submitted,
                   ord_in, ord_det, ord_cor, ord_pc, sv_in,
                   det_in, det_out, gf>>

\* Images up to MaxSide x MaxSide; every 8-bit grey level
MaxSide == 4
MaxIntensity == 255

UniformImage(cols, rows, v) == [y \in 1..rows |-> [x \in 1..cols |-> v]]

UniformImages ==
    {UniformImage(c, r, v) : c \in 1..MaxSide, r \in 1..MaxSide, v \in 0..MaxIntensity}

\* A dark dot on a light ground, a ramp, a dim dot on black, and no image
PatternImages ==
    { << <<200, 200, 200>>, <<200, 40, 200>>, <<200, 200, 200>> >>,
      << <<0, 60, 120, 180, 240>> >>,
      << <<0, 0>>, <<0, 3>> >>,
      << <<100, 100>>, <<100, 79>>, <<100, 81>> >>,
      <<>> }

SauvolaWindows == {SauvolaWindow, 3, 2}

InitSauvola ==
    /\ InitEngine
    /\ OrderIdle
    /\ sv_in \in (UniformImages \cup PatternImages) \X SauvolaWindows
    /\ sv_out = NoImage
    /\ DetectIdle
    /\ GuideIdle

NextSauvola == SauvolaBinarize

SpecSauvola == InitSauvola /\ [][NextSauvola]_allvars

-----------------------------------------------------------------------------
(* SpecDetect: findLargestQuadrilateral and the confidence of what it     *)
(* returns, on the contours of a 50 x 20 frame                            *)

\* At most MaxContours contours in one frame
MaxContours == 2

\* The frame the contours were found in: 1000 pixels, so that an area in
\* pixels is an area ratio in thousandths
DetectSize == <<50, 20>>

\* A quadrilateral with its left side on the frame's left edge: top edge a,
\* bottom edge b, height h; its area is (a + b) * h / 2
Trap(a, b, h) == << <<0, 0>>, <<a, 0>>, <<b, h>>, <<0, h>> >>

\* The bounding box of a polygon as <<x, y, w, h>>
Box(poly) ==
    LET xs == {poly[i][1] : i \in 1..Len(poly)}
        ys == {poly[i][2] : i \in 1..Len(poly)}
    IN <<SetMin(xs), SetMin(ys), SetMax(xs) - SetMin(xs), SetMax(ys) - SetMin(ys)>>

\* A polygon that simplifies to more than four points: poly with the middle
\* of its first edge kept as a vertex
Finer(poly) ==
    << poly[1], <<(poly[1][1] + poly[2][1]) \div 2, (poly[1][2] + poly[2][2]) \div 2>> >>
        \o Tail(poly)

\* The contour of a shape whose outline simplifies to poly from tolerance
\* step `from` on (to Finer(poly) before; from = 6: at no tolerance)
PolyContour(poly, from) ==
    LET b == Box(poly)
    IN << ContourArea2(poly) \div 2,
          [i \in 1..5 |-> IF i >= from THEN poly ELSE Finer(poly)],
          8, Rect(b[1], b[2], b[3], b[4]), b[3] * b[4] >>

\* A ragged shape of the given area inside the w x h rectangle at (x, y):
\* no tolerance gives four points
Blob(x, y, w, h, area, size) ==
    << area,
       [i \in 1..5 |-> << <<x, y>>, <<x + w, y>>, <<x + w, y + h>>,
                          <<x + (w \div 2), y + (h \div 2)>>, <<x, y + h>> >>],
       size, Rect(x, y, w, h), w * h >>

\* An arrowhead: four points at every tolerance, not convex
Arrow == << <<0, 0>>, <<30, 10>>, <<0, 20>>, <<10, 10>> >>

Shapes ==
    { PolyContour(Trap(20, 20, 10), 1),      \* a clean rectangle, 20% of the frame
      PolyContour(Trap(44, 40, 20), 3),      \* four points from the third tolerance on
      PolyContour(Trap(10, 10, 4), 1),       \* a rectangle below the minimum area
      PolyContour(Rotated(Trap(30, 24, 10)), 1),
      PolyContour(Arrow, 1),                 \* fills half of its rectangle
      Blob(0, 0, 25, 20, 400, 12),           \* fills 80% of its rectangle
      Blob(5, 0, 10, 10, 71, 9),             \* 71%
      Blob(5, 5, 10, 10, 70, 9),             \* exactly 70%
      Blob(6, 5, 10, 10, 69, 9),             \* 69%
      Blob(2, 2, 7, 6, 42, 6),               \* fills all of it, below the minimum area
      Blob(1, 1, 20, 5, 90, 3) }             \* three points only

\* One clean quadrilateral of every width, for the confidence
TrapFamily ==
    {PolyContour(Trap(ab[1], ab[2], h), 1) :
        ab \in {p \in (1..50) \X (1..50) : p[1] - p[2] \in {0, 1}},
        h \in {18, 20}}

\* Sequences of at most MaxContours shapes, largest area first
ContourLists ==
    {cs \in UNION {[1..n -> Shapes] : n \in 0..MaxContours} :
        \A i \in 1..(Len(cs) - 1) : contourArea(cs[i]) >= contourArea(cs[i + 1])}

InitDetect ==
    /\ InitEngine
    /\ OrderIdle
    /\ SauvolaIdle
    /\ \E cs \in ContourLists \cup {<<c>> : c \in TrapFamily} :
          det_in = <<cs, DetectSize>>
    /\ det_out = NoContours
    /\ GuideIdle

\* detect from the contours on: the quadrilateral is looked for, ordered and
\* scored
DetectContours ==
    /\ det_in # NoContours
    /\ det_out = NoContours
    /\ \E quad \in {findLargestQuadrilateral(det_in[1], det_in[2])} :
          det_out' = <<quad, detect([Frame(quad, NoText, 0, 0)
                                        EXCEPT !.cols = det_in[2][1],
                                               !.rows = det_in[2][2]])>>
    /\ UNCHANGED <<corner_history_, last_analysis_, call, ret, enh, submitted,
                   ord_in, ord_det, ord_cor, ord_pc, sv_in, sv_out, det_in, gf>>

NextDetect == DetectContours

SpecDetect == InitDetect /\ [][NextDetect]_allvars

-----------------------------------------------------------------------------
(* SpecCrop: the rectangular crop of both enhance operations, with corner  *)
(* boxes and guide rectangles that start left of, above, inside, at the    *)
(* edge of and past the 480 x 360 frame                                     *)

\* Where a box starts on either axis, and how long its sides are
CropOrigins == {-120, -40, 0, 100, 330, 440, 480, 520}
CropSides == {40, 100, 600}

NextCrop ==
    \/ \E x \in CropOrigins, y \in CropOrigins, w \in CropSides, h \in CropSides,
           p \in BOOLEAN :
          EnhanceImage(GoodImage, Rect(x, y, w, h), Options(p, ~p, FALSE, 0))
    \/ \E x \in CropOrigins, y \in CropOrigins, w \in CropSides, h \in CropSides,
           rot \in {0, 90} :
          EnhanceImageWithGuideFrame(GoodImage, <<x, y, x + w, y + h>>,
                                     Options(FALSE, FALSE, FALSE, 0), rot)

SpecCrop == Init /\ [][NextCrop]_allvars

-----------------------------------------------------------------------------
(* SpecOverlap: enhanceImageWithGuideFrame followed through its two reads   *)
(* of last_analysis_, with analyzeFrame calls of another thread returning   *)
(* before, between and after them.  The engine holds no lock: each read     *)
(* takes the value stored at that moment.                                   *)

MaxSubmitOverlap == 2

\* One frame without a document, one with a rectangular table, two with
\* trapezoid tables (bottom wider; left taller)
OverlapFrames ==
    {BlankFrame}
    \cup {Frame(Rotated(q), NoText, 700, 700) :
            q \in {Rect(100, 80, 240, 180), QuadBottomWide, QuadLeftTall}}

\* The fields of gf
GuidePc == gf[1]
GuideArgs == gf[2]
GuideVirtual == gf[3]
GuideRead1 == gf[4]
GuideRead2 == gf[5]
GuideOverlapped == gf[6]

InFlight == gf # NoGuideCall /\ GuidePc = "corners"

\* enhanceImageWithGuideFrame up to and including calculateVirtualTrapezoid:
\* the first read of last_analysis_.  With invalid image data the call
\* returns before it reads anything.
GuideFrameBegin(img, guide, options, rotation) ==
    /\ ~InFlight
    /\ IF ~img.ok
       THEN \E r \in {enhanceImageWithGuideFrame(last_analysis_, img, guide, options, rotation)} :
               /\ call' = [op |-> "enhanceImageWithGuideFrame", path |-> r.path]
               /\ ret' = r.result
               /\ enh' = [steps |-> r.steps, corners |-> r.corners, guide |-> guide,
                          frame |-> r.frame,
                          perspective |-> r.adjusted.apply_perspective_correction,
                          crop |-> r.adjusted.apply_crop,
                          output |-> <<r.adjusted.output_width, r.adjusted.output_height>>]
               /\ gf' = NoGuideCall
               /\ UNCHANGED <<corner_history_, last_analysis_, submitted,
                              ord_in, ord_det, ord_cor, ord_pc, sv_in, sv_out, det_in, det_out>>
       ELSE /\ gf' = <<"corners", <<img, guide, options, rotation>>,
                       calculateVirtualTrapezoid(last_analysis_, guide),
                       last_analysis_, last_analysis_, FALSE>>
            /\ UNCHANGED <<corner_history_, last_analysis_, call, ret, enh, submitted,
                           ord_in, ord_det, ord_cor, ord_pc, sv_in, sv_out, det_in, det_out>>

\* The rest of the call: the options are adjusted from last_analysis_ as it
\* is now (the second read), then the stages run on the corners worked out
\* before
GuideFrameEnd ==
    /\ InFlight
    /\ \E r \in {GuideFrameStages(GuideArgs[1], GuideArgs[4], GuideVirtual,
                                  AdjustedOptions(last_analysis_, GuideArgs[3]))} :
          /\ call' = [op |-> "enhanceImageWithGuideFrame", path |-> r.path]
          /\ ret' = r.result
          /\ enh' = [steps |-> r.steps, corners |-> r.corners, guide |-> GuideArgs[2],
                     frame |-> r.frame,
                     perspective |-> r.adjusted.apply_perspective_correction,
                     crop |-> r.adjusted.apply_crop,
                     output |-> <<r.adjusted.output_width, r.adjusted.output_height>>]
    /\ gf' = <<"done", GuideArgs, GuideVirtual, GuideRead1, last_analysis_,
               GuideOverlapped>>
    /\ UNCHANGED <<corner_history_, last_analysis_, submitted,
                   ord_in, ord_det, ord_cor, ord_pc, sv_in, sv_out, det_in, det_out>>

\* analyzeFrame of another thread running to its end while the enhance call
\* is between its two reads
AnalyzeFrameMeanwhile(frame) ==
    /\ InFlight
    /\ AnalyzeFrameCall(frame)
    /\ gf' = <<GuidePc, GuideArgs, GuideVirtual, GuideRead1, GuideRead2, TRUE>>

NextOverlap ==
    \/ \E f \in OverlapFrames :
          Len(submitted) < MaxSubmitOverlap /\ ~InFlight /\ AnalyzeFrame(f)
    \/ \E f \in OverlapFrames :
          Len(submitted) < MaxSubmitOverlap /\ AnalyzeFrameMeanwhile(f)
    \/ \E img \in {GoodImage, BadImage}, g \in GeomGuides :
          GuideFrameBegin(img, g, Options(FALSE, FALSE, FALSE, 0), 0)
    \/ GuideFrameEnd

SpecOverlap == Init /\ [][NextOverlap]_allvars

-----------------------------------------------------------------------------
(* Properties *)

Analyzed == call.op = "analyzeFrame"
\* The last call was an analyzeFrame that handed 4 corners to checkStability
Submitting == Analyzed /\ call.path \in {"table", "text"}
GuideCall == call.op = "enhanceImageWithGuideFrame" /\ call.path # "invalid"
InSteps(x) == \E i \in 1..Len(enh.steps) : enh.steps[i] = x

\* The last n elements of s
LastN(s, n) == SubSeq(s, Len(s) - n + 1, Len(s))

\* C1: the stability history never holds more than 5 corner sets and is, in
\* order, the most recent min(n, 5) corner sets submitted since the last
\* reset (so the 6th submission evicts the oldest).
C1_HistoryIsLastFive ==
    /\ Len(corner_history_) <= 5
    /\ corner_history_ = LastN(submitted, Min2(Len(submitted), 5))

\* Six submissions, the first two distinct: the first is gone, the second is
\* now the oldest retained.
C1_Witness ==
    /\ Len(submitted) = 6
    /\ submitted[1] # submitted[2]
    /\ Len(corner_history_) = 5
    /\ corner_history_[1] = submitted[2]

\* C2: counting submissions from the last reset, the 1st and 2nd return a
\* stability of exactly 0, and every one from the 3rd on a value in [0, 1].
C2_WarmUpThenUnitInterval ==
    Submitting =>
        IF Len(submitted) <= 2
        THEN ret.stability_score = 0
        ELSE ret.stability_score >= 0 /\ ret.stability_score <= 1000

\* A submission past the warm-up scoring strictly between 0 and 1
C2_Witness ==
    /\ Submitting
    /\ Len(submitted) >= 4
    /\ ret.stability_score > 0
    /\ ret.stability_score < 1000

\* checkStability run over the corner sets s from an empty history: the
\* history it leaves, and the score of the last call
RECURSIVE ReplayHistory(_)
ReplayHistory(s) ==
    IF s = <<>> THEN <<>>
    ELSE checkStability(ReplayHistory(SubSeq(s, 1, Len(s) - 1)), s[Len(s)]).hist

ReplayScore(s) ==
    checkStability(ReplayHistory(SubSeq(s, 1, Len(s) - 1)), s[Len(s)]).score

\* C3: reset empties the history, whatever it held; the stability score of
\* an analyze call is the one an engine that saw only the corner sets
\* submitted since the reset would give, and the warm-up starts again.
C3_ResetForgets ==
    /\ call.op = "reset" => corner_history_ = <<>>
    /\ Submitting =>
          /\ ret.stability_score = ReplayScore(submitted)
          /\ Len(submitted) <= 3 => ret.stability_score = 0

\* A reset taken when the history was full of scored frames (the stored
\* analysis still shows a stability of 1): the history is empty.
C3_Witness ==
    /\ call.op = "reset"
    /\ last_analysis_.stability_score = 1000
    /\ corner_history_ = <<>>

\* C4 as claimed: after every analyzeFrame call, rejected ones included,
\* the stored last analysis is the result the call returned.
C4_StoredAfterEveryCall == Analyzed => last_analysis_ = ret

\* C4 as amended: an analyzeFrame call that passes the input check stores
\* the result it returns; a rejected call returns the default result and
\* leaves the stored analysis as it was.
C4_StoredUnlessRejected ==
    [][call'.op = "analyzeFrame" =>
          IF call'.path = "invalid"
          THEN ret' = DefaultAnalysis /\ last_analysis_' = last_analysis_
          ELSE last_analysis_' = ret']_allvars

\* A rejected call after a table was analysed: the stored analysis is still
\* the table's.
C4_Witness ==
    /\ Analyzed
    /\ call.path = "invalid"
    /\ ret = DefaultAnalysis
    /\ last_analysis_.table_found

\* C5: an enhance call, on whatever path it returns, leaves the stored
\* analysis and the stability history as they were.
C5_EnhanceReadOnly ==
    [][call'.op \in {"enhanceImage", "enhanceImageWithGuideFrame"} =>
          /\ last_analysis_' = last_analysis_
          /\ corner_history_' = corner_history_]_allvars

\* A guide-frame enhancement that succeeded on an engine holding a table
\* analysis and a non-empty history
C5_Witness ==
    /\ call.op = "enhanceImageWithGuideFrame"
    /\ ret.success
    /\ last_analysis_.table_found
    /\ Len(corner_history_) >= 3

\* The readiness rule on one analysis result
ReadyRule(r) ==
    r.capture_ready <=>
        /\ r.blur_score > 600
        /\ r.brightness_score > 500
        /\ r.stability_score > (IF r.table_found THEN 800 ELSE 900)

\* C6: in every analysis result, capture_ready holds exactly when blur > 0.6,
\* brightness > 0.5 and stability > T, T being 0.8 with a table and 0.9
\* without; every comparison is strict.
C6_ReadyRule ==
    /\ ReadyRule(last_analysis_)
    /\ Analyzed => ReadyRule(ret)

\* A sharp, well lit text frame whose stability is exactly 0.9: not ready
C6_Witness ==
    /\ Analyzed
    /\ ret.text_region_found
    /\ ret.blur_score > 600
    /\ ret.brightness_score > 500
    /\ ret.stability_score = 900
    /\ ~ret.capture_ready

\* The stored analysis is of a trapezoidal table
StoredTrapezoid == last_analysis_.table_found /\ last_analysis_.is_trapezoid

\* The guide rectangle of the last guide-frame call lies inside its frame
GuideInFrame ==
    /\ 0 <= enh.guide[1] /\ enh.guide[1] < enh.guide[3] /\ enh.guide[3] <= enh.frame[1]
    /\ 0 <= enh.guide[2] /\ enh.guide[2] < enh.guide[4] /\ enh.guide[4] <= enh.frame[2]

\* C7: a guide-frame enhancement rectifies exactly when the stored analysis
\* is of a trapezoidal table; otherwise it takes the rectangular crop (cut to
\* the guide rectangle when that lies in the frame), whatever the caller's
\* perspective and crop switches say.
C7_PerspectiveIffStoredTrapezoid ==
    GuideCall =>
        /\ InSteps("perspective") <=> StoredTrapezoid
        /\ enh.perspective <=> StoredTrapezoid
        /\ enh.crop <=> ~StoredTrapezoid
        /\ InSteps("crop") => ~StoredTrapezoid
        /\ (~StoredTrapezoid /\ GuideInFrame) =>
              /\ InSteps("crop")
              /\ ret.width = enh.guide[3] - enh.guide[1]
              /\ ret.height = enh.guide[4] - enh.guide[2]

\* A rectifying guide-frame call
C7_Witness ==
    /\ GuideCall
    /\ StoredTrapezoid
    /\ InSteps("perspective")
    /\ ret.success

\* C8: when the stored analysis is not of a trapezoidal table, the virtual
\* corners are the guide rectangle's, in the order TL, TR, BR, BL, whatever
\* skews and edge lengths the analysis holds.
C8_GuideCornersUnmodified ==
    (GuideCall /\ ~StoredTrapezoid) =>
        enh.corners = << <<enh.guide[1], enh.guide[2]>>, <<enh.guide[3], enh.guide[2]>>,
                         <<enh.guide[3], enh.guide[4]>>, <<enh.guide[1], enh.guide[4]>> >>

\* A table whose vertical skew is above 0.01 yet not a trapezoid: the guide
\* rectangle comes back as it is.
C8_Witness ==
    /\ GuideCall
    /\ last_analysis_.table_found
    /\ ~last_analysis_.is_trapezoid
    /\ last_analysis_.vertical_skew > 100
    /\ last_analysis_.top_width # last_analysis_.bottom_width
    /\ enh.corners[1] = <<enh.guide[1], enh.guide[2]>>

\* The trapezoid rule on one analysis result
TrapezoidRule(r) ==
    /\ r.is_trapezoid <=> r.skew_ratio > 500
    /\ r.skew_ratio = Max2(r.vertical_skew, r.horizontal_skew)

\* C9: in every analysis result, whatever the path, is_trapezoid holds
\* exactly when skew_ratio > 0.05, skew_ratio being the larger of the
\* vertical and the horizontal skew.
C9_TrapezoidRule ==
    /\ TrapezoidRule(last_analysis_)
    /\ Analyzed => TrapezoidRule(ret)

\* A table measuring a skew ratio of exactly 0.05: not a trapezoid
C9_Witness ==
    /\ Analyzed
    /\ ret.table_found
    /\ ret.skew_ratio = 500
    /\ ~ret.is_trapezoid

\* C10: each orderCorners routine is idempotent on every 4-point input:
\* ordering its own output gives that output back.
C10_OrderIdempotent ==
    /\ ord_det # NoOrder => ord_det[2] = ord_det[1]
    /\ ord_cor # NoOrder => ord_cor[2] = ord_cor[1]

\* The quadrant classification of c leaves one of the four slots empty
Unfilled(c) == \E k \in 1..4 : SlotIdx(c, k) = {}

PointsOf(c) == {c[i] : i \in 1..Len(c)}

\* C11: on a 4-point input whose classification does not fill the four
\* slots, each orderCorners routine returns the input as it came, and no
\* routine ever returns a point that was not in the input.
C11_OrderFallsBack ==
    /\ ord_det # NoOrder =>
          /\ Unfilled(ord_in) => ord_det[1] = ord_in
          /\ PointsOf(ord_det[1]) \subseteq PointsOf(ord_in)
    /\ ord_cor # NoOrder =>
          /\ Unfilled(ord_in) => ord_cor[1] = ord_in
          /\ PointsOf(ord_cor[1]) \subseteq PointsOf(ord_in)

\* The last call was an enhance operation, direct or through the FFI bridge
EnhanceCall ==
    call.op \in {"enhanceImage", "enhanceImageWithGuideFrame",
                 "enhance_image", "enhance_image_with_guide_frame"}

\* The last call was enhanceImage, direct or through enhance_image
CornerCall == call.op \in {"enhanceImage", "enhance_image"}

\* C12: a successful enhanceImage call that rectifies returns the requested
\* output size when both sides are nonzero, and otherwise the averaged edge
\* lengths of the ordered corners, each at least 100, truncated; the steps
\* after the rectification leave the size alone.
C12_RectifiedSize ==
    (CornerCall /\ ret.success /\ enh.perspective) =>
        LET o == CorrectorOrderCorners(enh.corners)
            top == Norm(o[2], o[1])
            bottom == Norm(o[3], o[4])
            left == Norm(o[4], o[1])
            right == Norm(o[3], o[2])
        IN IF enh.output[1] # 0 /\ enh.output[2] # 0
           THEN ret.width = enh.output[1] /\ ret.height = enh.output[2]
           ELSE /\ ret.width = Max2(100, (top + bottom) \div 2)
                /\ ret.height = Max2(100, (left + right) \div 2)

\* Only the width was requested, for a 240 x 180 rectangle given from its
\* third corner: both sides are estimated, and sharpening and the Sauvola
\* mode ran afterwards.
C12_Witness ==
    /\ CornerCall /\ ret.success /\ enh.perspective
    /\ enh.output = <<640, 0>>
    /\ enh.corners = Rotated(Rect(100, 80, 240, 180))
    /\ ret.width = 240 /\ ret.height = 180
    /\ InSteps("sharpen") /\ InSteps("sauvolaBinarize")

\* Three of the points lie on one line (coincident points included)
Collinear(a, b, c) ==
    (b[1] - a[1]) * (c[2] - a[2]) = (b[2] - a[2]) * (c[1] - a[1])

\* No homography maps the four corners onto a rectangle
Degenerate(c) ==
    \E i, j, k \in 1..4 : i < j /\ j < k /\ Collinear(c[i], c[j], c[k])

\* C13: an enhance call asked to rectify degenerate corners aborts with
\* success = false and the message "Perspective correction failed".
C13_DegenerateAborts ==
    (EnhanceCall /\ call.path # "invalid" /\ enh.perspective
       /\ Degenerate(enh.corners)) =>
        /\ ~ret.success
        /\ ret.error_message = "Perspective correction failed"

\* C14: every result of an enhance operation or of its FFI wrapper is either
\* a failure with no buffer, zero width and height and a message, or a
\* success with a buffer and no message.
C14_ResultWellFormed ==
    EnhanceCall =>
        IF ret.success
        THEN ret.image_data /\ ret.error_message = ""
        ELSE /\ ~ret.image_data
             /\ ret.width = 0 /\ ret.height = 0
             /\ ret.error_message # ""

\* enhance_image given a frame and no corners
C14_Witness ==
    /\ call.op = "enhance_image"
    /\ ~ret.success
    /\ ~ret.image_data
    /\ ret.error_message = "Corners not provided"

\* C15: a call rejected for invalid input leaves the stability history as it
\* was and runs no step: analyzeFrame returns the all-default result, an
\* enhance operation a failed result.
C15_InvalidInputNoProcessing ==
    [][call'.path = "invalid" =>
          /\ corner_history_' = corner_history_
          /\ call'.op = "analyzeFrame" => ret' = DefaultAnalysis
          /\ call'.op = "analyze_frame" =>
                ret' \in {DefaultAnalysis, [error |-> "Invalid parameters"]}
          /\ call'.op \in {"enhanceImage", "enhanceImageWithGuideFrame",
                           "enhance_image", "enhance_image_with_guide_frame"} =>
                /\ ~ret'.success
                /\ ~ret'.image_data
                /\ enh'.steps = <<>>]_allvars

\* enhanceImage rejected for null corners on an engine that has analysed a frame
C15_Witness ==
    /\ call.op = "enhanceImage"
    /\ call.path = "invalid"
    /\ ret.error_message = "Corners not provided"
    /\ Len(corner_history_) = 1
    /\ enh.steps = <<>>

\* The reply carries a status: an error key or message that is not empty
Reported(r) ==
    \E k \in {"error", "error_message"} : k \in DOMAIN r /\ r[k] # ""

\* C16: every rejected call is reported by a status and a message: the reply
\* to a rejected analyze call carries one, and no valid frame in which
\* nothing was detected gets the reply a rejected call gets.
C16_FailureReported ==
    /\ (call.op \in {"analyzeFrame", "analyze_frame"} /\ call.path = "invalid") =>
          Reported(ret)
    /\ (call.op \in {"analyzeFrame", "analyze_frame"} /\ call.path = "none") =>
          ret # DefaultAnalysis
    /\ (EnhanceCall /\ ~ret.success) => Reported(ret)

\* The corners of the guide rectangle <<left, top, right, bottom>>: TL, TR, BR, BL
GuideCorners(g) == << <<g[1], g[2]>>, <<g[3], g[2]>>, <<g[3], g[4]>>, <<g[1], g[4]>> >>

\* C17: reset clears the whole session state: the stored analysis is the
\* default one after it, as the history is empty, and a guide-frame
\* enhancement made next works on the guide rectangle as it is, with a
\* plain crop.
C17_ResetClearsSession ==
    [][/\ call'.op = "reset" =>
             /\ corner_history_' = <<>>
             /\ last_analysis_' = DefaultAnalysis
       /\ (call.op = "reset" /\ call'.op = "enhanceImageWithGuideFrame"
             /\ call'.path # "invalid") =>
             /\ ~enh'.perspective
             /\ enh'.crop
             /\ enh'.corners = GuideCorners(enh'.guide)]_allvars

\* C19: a frame in which the detector finds no quadrilateral gives
\* found = false, confidence 0 and no corners; analyzeFrame then takes the
\* fallback (text regions, or nothing found) and returns no table, no
\* trapezoid and every edge length and skew at 0.
C19_MissRunsFallback ==
    /\ \A f \in GeomFrames :
          (f.ok /\ Len(f.quad) # 4) =>
              /\ detect(f) = [found |-> FALSE, corners |-> <<>>, confidence |-> 0]
              /\ analyzeFrame(<<>>, f).path \in {"text", "none"}
    /\ (Analyzed /\ call.path \in {"text", "none"}) =>
          /\ ~ret.document_found
          /\ ~ret.table_found
          /\ ~ret.is_trapezoid
          /\ ret.skew_ratio = 0
          /\ ret.top_width = 0 /\ ret.bottom_width = 0
          /\ ret.left_height = 0 /\ ret.right_height = 0
          /\ ret.vertical_skew = 0 /\ ret.horizontal_skew = 0
          /\ call.path = "none" => ret.corner_confidence = 0
    /\ (Analyzed /\ call.path # "invalid" /\ ~ret.document_found) =>
          call.path \in {"text", "none"}

\* A frame with text and no table, analysed after a trapezoidal table had
\* been stored: the text fallback ran and the result holds no table metrics.
C19_Witness ==
    /\ Analyzed
    /\ call.path = "text"
    /\ ret.text_region_found
    /\ ~ret.table_found
    /\ ret.top_width = 0
    /\ Len(submitted) = 2
    /\ last_analysis_ = ret

\* Position of step x among the steps of the last enhance call, 0 if it did
\* not run
Pos(x) ==
    IF InSteps(x) THEN CHOOSE i \in 1..Len(enh.steps) : enh.steps[i] = x ELSE 0

\* Where both steps ran, a ran before b
Before(a, b) == (InSteps(a) /\ InSteps(b)) => Pos(a) < Pos(b)

ModeNames ==
    {"whitenBackground", "stretchContrast", "adaptiveBinarize", "sauvolaBinarize"}

\* The part of the order both readings agree on: crop or rectification,
\* then the channel normalisation, then mode and sharpening
GeometryThenNormalise ==
    /\ \A g \in {"crop", "perspective"} :
          /\ Before(g, "bgr") /\ Before(g, "sharpen")
          /\ \A m \in ModeNames : Before(g, m)
    /\ Before("bgr", "sharpen")
    /\ \A m \in ModeNames : Before("bgr", m)

\* C20 as claimed: in both enhance operations the enhancement mode runs
\* before the sharpening.
C20_SharpenAfterMode ==
    EnhanceCall =>
        /\ GeometryThenNormalise
        /\ \A m \in ModeNames : Before(m, "sharpen")

\* C20 as amended: in both enhance operations the steps run in the order
\* crop or rectification, channel normalisation, sharpening, enhancement
\* mode: the sharpening comes before the mode, never after it.  The auto
\* enhancement of enhanceImage sits between normalisation and sharpening.
C20_SharpenBeforeMode ==
    EnhanceCall =>
        /\ GeometryThenNormalise
        /\ Before("bgr", "auto") /\ Before("auto", "sharpen")
        /\ \A m \in ModeNames : Before("auto", m) /\ Before("sharpen", m)

\* A rectifying enhance_image call that ran every stage: normalisation, auto
\* enhancement, sharpening and then the contrast stretch
C20_Witness ==
    /\ call.op = "enhance_image"
    /\ ret.success
    /\ enh.steps = <<"perspective", "bgr", "auto", "sharpen", "stretchContrast">>


\* The routine has run on a non-empty image
Binarized == sv_in # NoImage /\ sv_in[1] # <<>> /\ sv_out # NoImage

\* Every pixel of img has the value v
AllPixels(img, v) ==
    \A y \in 1..Len(img) : \A x \in 1..Len(img[y]) : img[y][x] = v

\* The input is a single-intensity image
UniformInput == Binarized /\ AllPixels(sv_in[1], sv_in[1][1][1])

\* Window statistics of pixel (x, y) of the input
InputStats(x, y) == WindowStats(sv_in[1], x, y, HalfWindow(sv_in[2]))

\* C18 as claimed: on a single-intensity image, of any size and intensity,
\* the output is uniform, the local standard deviation is 0 and the threshold
\* at every pixel is the local mean: a pixel is set exactly when it lies
\* above the mean of its window.
C18_ThresholdIsMean ==
    UniformInput =>
        /\ AllPixels(sv_out, 0) \/ AllPixels(sv_out, 255)
        /\ \A y \in 1..Len(sv_out) : \A x \in 1..Len(sv_out[y]) :
              LET st == InputStats(x, y)
              IN /\ VarianceTimesArea2(st) = 0
                 /\ (sv_out[y][x] = 255) <=> (sv_in[1][y][x] * st[1] > st[2])

\* C18 as amended: on a single-intensity image v, of any size (windows
\* clipped or not), the output has the input's size and is uniform: all 255
\* for v >= 1 and all 0 for v = 0.  The local standard deviation is 0 and
\* the mean is v, so the threshold at every pixel is (1 - k) times the local
\* mean, 0.8 v, which lies below the pixel unless v = 0.
C18_UniformStaysUniform ==
    UniformInput =>
        LET v == sv_in[1][1][1]
        IN /\ Len(sv_out) = Len(sv_in[1])
           /\ \A y \in 1..Len(sv_out) : Len(sv_out[y]) = Len(sv_in[1][y])
           /\ AllPixels(sv_out, IF v >= 1 THEN 255 ELSE 0)
           /\ \A y \in 1..Len(sv_out) : \A x \in 1..Len(sv_out[y]) :
                 LET st == InputStats(x, y)
                 IN /\ VarianceTimesArea2(st) = 0
                    /\ st[2] = v * st[1]
                    /\ (sv_out[y][x] = 255) <=>
                          (v * SauvolaK[2] * st[1] > st[2] * (SauvolaK[2] - SauvolaK[1]))

\* A uniform mid-grey image larger than the 3-pixel window (clipped windows
\* at the border, a full one inside) came out all white
C18_Witness ==
    /\ UniformInput
    /\ sv_in[2] = 3
    /\ Len(sv_in[1]) = MaxSide /\ Len(sv_in[1][1]) = MaxSide
    /\ sv_in[1][1][1] = 128
    /\ AllPixels(sv_out, 255)


\* findLargestQuadrilateral and detect have run on the contours in det_in
Detected == det_in # NoContours /\ det_out # NoContours

\* Contour i is at or above the minimum area
Eligible(i) == ~BelowMinArea(det_in[1][i], det_in[2])

\* C21: the bounding-rectangle fallback is a last resort: if any contour at
\* or above the minimum area, of whatever rank, has a convex 4-point
\* simplification at some tolerance, the quadrilateral returned is such a
\* simplification, never the bounding rectangle of a larger contour.
C21_RectangleOnlyAsLastResort ==
    Detected =>
        LET cs == det_in[1]
            withQuad == {i \in 1..Len(cs) : Eligible(i) /\ QuadSteps(cs[i]) # {}}
        IN withQuad # {} =>
              \E i \in withQuad : \E k \in QuadSteps(cs[i]) :
                 det_out[1] = approxPolyDP(cs[i], k)

\* Contour i is the first to get as far as the rectangle test: no contour
\* before it made the routine return, it is large enough, no tolerance gave
\* a convex 4-point polygon, and it has 4 points or more
AtRectangleTest(i) ==
    /\ \A j \in 1..(i - 1) : ~Returns(det_in[1][j], det_in[2])
    /\ Eligible(i)
    /\ QuadSteps(det_in[1][i]) = {}
    /\ ContourSize(det_in[1][i]) >= 4

\* C22: the rectangle of a contour is accepted iff contourArea / rectArea
\* >= 0.70, so at exactly 70% it is accepted and below it is rejected; the
\* rectangle of a contour below the minimum area is never returned.
C22_RectangleAtSeventyPercent ==
    Detected =>
        \A i \in 1..Len(det_in[1]) :
           LET c == det_in[1][i]
           IN /\ AtRectangleTest(i) =>
                    ((det_out[1] = minAreaRect(c))
                        <=> (contourArea(c) * 100 >= RectArea(c) * 70))
              /\ ~Eligible(i) => det_out[1] # minAreaRect(c)

\* The area-fit score as the claim gives it, ratio in thousandths
ClaimedAreaFit(ratio) ==
    IF ratio >= 200 /\ ratio <= 800 THEN 1000 - Abs(ratio - 500)
    ELSE IF ratio > 100 /\ ratio < 200 THEN 500
    ELSE 0

\* C23: the confidence of a detection is 0.6 x area-fit + 0.4 x corner
\* separation and lies in [0, 1], the area-fit score being 1 - |ratio - 0.5|
\* for ratio in [0.2, 0.8], 0.5 for ratio in (0.1, 0.2) and 0 for every
\* other ratio, in particular above 0.8.
C23_AreaFitScore ==
    (Detected /\ det_out[2].found) =>
        LET c == det_out[2].corners
            ratio == AreaRatio(c, det_in[2][1], det_in[2][2])
        IN /\ det_out[2].confidence \in 0..1000
           /\ det_out[2].confidence =
                 (ClaimedAreaFit(ratio) * 6
                    + DistScore(c, det_in[2][1], det_in[2][2]) * 4) \div 10


\* guide_width * |bottom - top| / avg / 2 for the stored analysis and the
\* guide rectangle of the last enhance call
VerticalShift ==
    ((enh.guide[3] - enh.guide[1])
        * Abs(last_analysis_.bottom_width - last_analysis_.top_width))
      \div (last_analysis_.top_width + last_analysis_.bottom_width)

\* C24: when the stored analysis is a trapezoidal table with vertical_skew >
\* 0.01 and top + bottom > 0, the two x-coordinates of the narrower of the
\* top and bottom edges (the bottom one when top = bottom) each move inward
\* by guide_width x |bottom - top| / avg / 2, the other edge keeps guide_left
\* and guide_right, and the rule changes no y-coordinate: the y-coordinates
\* are those obtained without any vertical skew.  With vertical_skew <= 0.01
\* no x-coordinate changes.
C24_VerticalSkewRule ==
    (GuideCall /\ StoredTrapezoid) =>
        LET c == enh.corners
            g == enh.guide
            la == last_analysis_
            flat == calculateVirtualTrapezoid(
                        [la EXCEPT !.vertical_skew = 0], g)
        IN /\ (la.vertical_skew > 100 /\ la.top_width + la.bottom_width > 0
                 /\ la.bottom_width > la.top_width) =>
                 /\ c[1][1] = g[1] + VerticalShift
                 /\ c[2][1] = g[3] - VerticalShift
                 /\ c[4][1] = g[1] /\ c[3][1] = g[3]
           /\ (la.vertical_skew > 100 /\ la.top_width + la.bottom_width > 0
                 /\ la.bottom_width <= la.top_width) =>
                 /\ c[4][1] = g[1] + VerticalShift
                 /\ c[3][1] = g[3] - VerticalShift
                 /\ c[1][1] = g[1] /\ c[2][1] = g[3]
           /\ la.vertical_skew <= 100 =>
                 /\ c[1][1] = g[1] /\ c[4][1] = g[1]
                 /\ c[2][1] = g[3] /\ c[3][1] = g[3]
           /\ \A i \in 1..4 : c[i][2] = flat[i][2]
           /\ la.horizontal_skew <= 100 =>
                 /\ c[1][2] = g[2] /\ c[2][2] = g[2]
                 /\ c[3][2] = g[4] /\ c[4][2] = g[4]

\* A guide-frame call after a table skewed both ways (top 240, bottom 230,
\* right side shorter): the bottom edge moved in by 240 * 10 / 470 = 5 and
\* the right edge was shortened as well
C24_Witness ==
    /\ GuideCall
    /\ StoredTrapezoid
    /\ last_analysis_.top_width = 240 /\ last_analysis_.bottom_width = 230
    /\ last_analysis_.horizontal_skew > 100
    /\ enh.guide = <<100, 80, 340, 260>>
    /\ enh.corners[4][1] = 105 /\ enh.corners[3][1] = 335
    /\ enh.corners[2][2] > 80

\* C28: for a guide rectangle with left < right and top < bottom the virtual
\* quadrilateral lies inside the guide rectangle and keeps its corner roles:
\* TL.x <= TR.x, BL.x <= BR.x, TL.y <= BL.y, TR.y <= BR.y.
C28_VirtualQuadKeepsRoles ==
    (GuideCall /\ enh.guide[1] < enh.guide[3] /\ enh.guide[2] < enh.guide[4]) =>
        LET c == enh.corners
            g == enh.guide
        IN /\ \A i \in 1..4 : /\ g[1] <= c[i][1] /\ c[i][1] <= g[3]
                              /\ g[2] <= c[i][2] /\ c[i][2] <= g[4]
           /\ c[1][1] <= c[2][1]
           /\ c[4][1] <= c[3][1]
           /\ c[1][2] <= c[4][2]
           /\ c[2][2] <= c[3][2]


\* C25: capture_ready is reported only for a frame in which a table or a
\* text region was found, and never by any of the first three analyze calls
\* that submit 4 corners after a reset or after construction: the call that
\* reports it is at the earliest the 4th such call.
C25_ReadyFromFourthSubmission ==
    (Analyzed /\ ret.capture_ready) =>
        /\ ret.table_found \/ ret.text_region_found
        /\ call.path \in {"table", "text"}
        /\ Len(submitted) >= 4
        /\ Len(corner_history_) >= 4

\* The 4th submission since the last reset, the same sharp and well lit
\* table four times, reports capture_ready
C25_Witness ==
    /\ Analyzed
    /\ ret.capture_ready
    /\ ret.table_found
    /\ Len(submitted) = 4
    /\ \A i \in 1..3 : submitted[i] = submitted[4]


\* The relations between the flags and the metrics of one analysis result
WellFormedAnalysis(r) ==
    /\ r.table_found = r.document_found
    /\ ~(r.table_found /\ r.text_region_found)
    /\ r.is_trapezoid => r.table_found
    /\ ~r.table_found =>
          /\ r.top_width = 0 /\ r.bottom_width = 0
          /\ r.left_height = 0 /\ r.right_height = 0
          /\ r.vertical_skew = 0 /\ r.horizontal_skew = 0
          /\ r.skew_ratio = 0

\* C26: every analysis result returned, and every value last_analysis_
\* takes, has table_found = document_found, never both table_found and
\* text_region_found, is_trapezoid only with table_found, and all four edge
\* lengths and all three skews at 0 when table_found is false.
C26_AnalysisWellFormed ==
    /\ WellFormedAnalysis(last_analysis_)
    /\ Analyzed => WellFormedAnalysis(ret)

\* A trapezoidal table analysed right after a different outline: both flags
\* set, metrics present, and the result stored
C26_Witness ==
    /\ Analyzed
    /\ ret.document_found /\ ret.table_found /\ ret.is_trapezoid
    /\ ret.top_width > ret.bottom_width /\ ret.bottom_width > 0
    /\ last_analysis_ = ret
    /\ Len(submitted) = 2
    /\ submitted[1] # submitted[2]


\* hist after one push_back of corners, the oldest entry dropped when that
\* makes more than MAX_HISTORY
PushedOnce(hist, corners) ==
    LET pushed == Append(hist, corners)
    IN IF Len(pushed) > MAX_HISTORY THEN Tail(pushed) ELSE pushed

\* C27: an analyzeFrame call that yields 4 corners (the table's, or the
\* overall corners of the text regions) appends them to the stability
\* history exactly once; one that finds neither, or is rejected, leaves the
\* history as it was; nothing is cleared when the path changes from one
\* frame to the next.
C27_OneAppendPerAnalysis ==
    [][call'.op = "analyzeFrame" =>
          /\ call'.path \in {"table", "text"} =>
                /\ Len(ret'.corners) = 4
                /\ corner_history_' = PushedOnce(corner_history_, ret'.corners)
          /\ call'.path \in {"none", "invalid"} =>
                corner_history_' = corner_history_
          /\ (call.op = "analyzeFrame" /\ call.path \in {"table", "text"}
                /\ call'.path \in {"table", "text"} /\ call'.path # call.path) =>
                /\ Len(corner_history_') >= Len(corner_history_)
                /\ Len(corner_history_) < MAX_HISTORY =>
                      SubSeq(corner_history_', 1, Len(corner_history_)) = corner_history_
      ]_allvars

\* A text frame analysed right after a table frame: the history holds the
\* table's corners and then the text regions' corners
C27_Witness ==
    /\ Analyzed
    /\ call.path = "text"
    /\ Len(corner_history_) = 2
    /\ corner_history_[1] = Rect(100, 80, 240, 180)
    /\ corner_history_[2] = Rect(102, 80, 240, 180)
    /\ submitted = corner_history_

\* The last call was an enhance operation that reached its plain-crop stage
PlainCropStage ==
    /\ call.op \in {"enhanceImage", "enhanceImageWithGuideFrame"}
    /\ call.path # "invalid"
    /\ enh.crop /\ ~enh.perspective

\* The bounding box of the corners of the last enhance call, cut to its
\* frame: <<left, top, right, bottom>>
BoxInFrame ==
    LET b == Box(enh.corners)
    IN <<Max2(0, b[1]), Max2(0, b[2]), Min2(enh.frame[1], b[1] + b[3]), Min2(enh.frame[2], b[2] + b[4])>>

BoxMissesFrame == BoxInFrame[1] >= BoxInFrame[3] \/ BoxInFrame[2] >= BoxInFrame[4]

\* The region the last enhance call cut out: <<x, y, w, h>>
CroppedRegion == CropRect([cols |-> enh.frame[1], rows |-> enh.frame[2]], enh.corners)

Cropped == enh.steps # <<>> /\ enh.steps[1] = "crop"

\* C29: a plain crop cuts out a region that lies inside the corners' bounding
\* box cut to the frame, whatever the corner coordinates; when the box misses
\* the frame nothing is cut out and the call succeeds with the whole frame.
C29_CropInsideBoxAndFrame ==
    PlainCropStage =>
       /\ ret.success
       /\ BoxMissesFrame =>
             /\ ~Cropped
             /\ ret.width = enh.frame[1] /\ ret.height = enh.frame[2]
       /\ Cropped =>
             /\ ret.width = CroppedRegion[3] /\ ret.height = CroppedRegion[4]
             /\ CroppedRegion[1] >= BoxInFrame[1]
             /\ CroppedRegion[2] >= BoxInFrame[2]
             /\ CroppedRegion[1] + CroppedRegion[3] <= BoxInFrame[3]
             /\ CroppedRegion[2] + CroppedRegion[4] <= BoxInFrame[4]

\* What the code keeps of it: the region cut out lies inside the frame
CropInsideFrame ==
    (PlainCropStage /\ Cropped) =>
       /\ CroppedRegion[1] >= 0 /\ CroppedRegion[2] >= 0
       /\ CroppedRegion[1] + CroppedRegion[3] <= enh.frame[1]
       /\ CroppedRegion[2] + CroppedRegion[4] <= enh.frame[2]

\* What holds of boxes that start inside the frame
CropOfBoxFromInside ==
    (PlainCropStage /\ Box(enh.corners)[1] >= 0 /\ Box(enh.corners)[2] >= 0) =>
       /\ ret.success
       /\ BoxMissesFrame => ~Cropped
       /\ Cropped =>
             /\ CroppedRegion[1] >= BoxInFrame[1]
             /\ CroppedRegion[2] >= BoxInFrame[2]
             /\ CroppedRegion[1] + CroppedRegion[3] <= BoxInFrame[3]
             /\ CroppedRegion[2] + CroppedRegion[4] <= BoxInFrame[4]

\* An enhanceImageWithGuideFrame call followed through both reads has returned
GuideCallDone == gf # NoGuideCall /\ GuidePc = "done" /\ call.op = "enhanceImageWithGuideFrame"

TrapezoidTable(la) == la.table_found /\ la.is_trapezoid

\* C30 as claimed: however analyzeFrame calls interleave with an
\* enhanceImageWithGuideFrame call, the decision between perspective
\* correction and plain crop agrees with the analysis its virtual corners
\* were synthesized from: no perspective correction after a non-trapezoid
\* analysis, no plain crop after a trapezoid analysis.
C30_OneAnalysisUnderInterleaving ==
    GuideCallDone =>
       /\ enh.perspective = TrapezoidTable(GuideRead1)
       /\ enh.crop = ~TrapezoidTable(GuideRead1)

\* C30: when no analyzeFrame call returns while an enhanceImageWithGuideFrame
\* call is in flight, the call reads one value of last_analysis_: the corners
\* are synthesized from it, perspective correction is applied exactly when it
\* is a trapezoid table, and a plain crop otherwise.
C30_OneAnalysisWhenSerialised ==
    (GuideCallDone /\ ~GuideOverlapped) =>
       /\ GuideRead1 = GuideRead2
       /\ enh.corners = calculateVirtualTrapezoid(GuideRead1, enh.guide)
       /\ enh.perspective = TrapezoidTable(GuideRead1)
       /\ enh.crop = ~TrapezoidTable(GuideRead1)
       /\ ~TrapezoidTable(GuideRead1) =>
             enh.corners = GuideCorners(enh.guide)

\* C30 witness: a call without overlap that rectified with corners skewed
\* after a stored trapezoid
C30_Witness ==
    /\ GuideCallDone /\ ~GuideOverlapped
    /\ call.path = "ok"
    /\ TrapezoidTable(GuideRead1)
    /\ enh.perspective
    /\ enh.corners # GuideCorners(enh.guide)

====
